---- MODULE Spec2Model ----
(***************************************************************************)
(* Model of the image redaction service: the in-memory JobStore, the batch *)
(* orchestrator (processBatchJob / sendWebhook) and the coordinate         *)
(* resolver.                                                               *)
(*                                                                         *)
(* Node.js runs every callback to completion, so one action of the model   *)
(* is one synchronous segment of the code: from the event that resumes it  *)
(* (request arrival, setImmediate, the settling of an awaited promise, a   *)
(* timer) up to the next await.                                            *)
(*                                                                         *)
(* Optional fields (startedAt?, error?, webhookUrl?) are sets: {} is       *)
(* undefined, {v} is the value v.  The request of an item (opaque to the   *)
(* orchestrator) and the items' own startedAt / completedAt stamps (written*)
(* and reported, never read by a decision) are left out of the records.    *)
(***************************************************************************)
EXTENDS Integers, Sequences, FiniteSets, TLC

\* ------------------------------------------------------------------ bounds
\* Number of batch submissions accepted in one behaviour.
MaxJobs == 2
\* Largest number of items in one submission (the schema allows 1..10).
MaxItems == 2
\* Number of long lapses (each more than the TTL) the clock may make.
MaxTime == 1

\* ------------------------------------------------------- program constants
\* jobStore.ts MAX_JOBS (1000 in the source, scaled to the model's job count).
MAX_JOBS == 1
\* jobStore.ts JOB_TTL_MS (24 h in the source, one unit of the model's clock).
JOB_TTL_MS == 1
\* controller.ts sendWebhook: const maxAttempts = 3.
maxAttempts == 3

JobIds == 1..MaxJobs

\* The URLs a submission may carry (webhook_url is optional) and the values
\* of the global config.WEBHOOK_URL (optional as well).
JobUrls == {{}, {"job-url"}}
GlobalUrls == {{}, {"global-url"}}

\* The message of an error thrown by an awaited call of an item (getObject,
\* redactImage, putObject), as normalizeError hands it on, and the message
\* of the error JobStore throws for a job it does not hold.
ErrorMessages == {"call failed"}
JobNotFound == "job not found"

VARIABLES
    jobs,        \* the Job objects ever created, by id (heap)
    store,       \* JobStore.jobs: the ids held by the Map, in insertion order
    now,         \* the clock read by new Date() / Date.now()
    config,      \* config.WEBHOOK_URL
    pc,          \* position of each job's background task
    cur,         \* index of the item the task is working on
    att,         \* the attempt argument of the running sendWebhook
    posts,       \* webhook POSTs made for each job, oldest first
    replies,     \* 202 responses produced, by job
    dims,        \* resolver: the image dimensions
    region,      \* resolver: the coordinates submitted
    resolved,    \* resolver: processCoordinates(region, dims), once computed
    resolvedTwice, \* resolver: the resolver applied to its own result
    inProtocol,  \* store API: every call so far was one the item loop makes
    hookPc,      \* sendWebhook on the clock: where the call stands
    hookAttempt, \* its attempt argument
    hookFailure, \* the kind of the failure it caught last
    hookTimer,   \* seconds left before the armed timer may fire
    hookSince,   \* seconds since the failure
    hookWaits,   \* the waits before the attempts made so far
    hookJobHeld, \* whether the store still holds the job
    b64Dims,     \* base64 route: the decoded image's width and height
    b64Coords,   \* the coords of the region as submitted
    b64Clamped,  \* what the clamp loop made of them (or its rejection)
    b64Rect,     \* the rectangle handed to the compositor
    intake,      \* batch route: the last body received and the reply to it
    pipeDims,    \* pipeline: width and height of the decoded image
    pipeRegions, \* the region list of the call
    pipeBuffer,  \* the image after the regions applied so far
    pipeDone,    \* number of regions applied
    pipeStatus,  \* running, encoded or failed
    reqRoute,    \* one image run: the route (or the batch item loop) it came by
    reqKey,      \* its idempotency_key (S3 route)
    reqPc,       \* the await it stands at
    reqLeft,     \* regions the pipeline has still to apply
    reqCalls,    \* storage and service calls started, oldest first
    reqDest,     \* what the destination object holds
    reqMetadata, \* x-idempotency-key this run put on the destination object
    reqImage,    \* width and height of the source image
    reqReply,    \* the reply sent (for a batch item: how the item ended)
    normError,   \* the value a catch block caught
    normResult   \* what normalizeError made of it

batchVars == <<jobs, store, now, config, pc, cur, att, posts, replies>>
coordVars == <<dims, region, resolved, resolvedTwice>>
apiVars == <<inProtocol>>
hookVars == <<hookPc, hookAttempt, hookFailure, hookTimer, hookSince, hookWaits, hookJobHeld>>
b64Vars == <<b64Dims, b64Coords, b64Clamped, b64Rect>>
intakeVars == <<intake>>
pipeVars == <<pipeDims, pipeRegions, pipeBuffer, pipeDone, pipeStatus>>
reqVars == <<reqRoute, reqKey, reqPc, reqLeft, reqCalls, reqDest, reqMetadata, reqImage, reqReply>>
normVars == <<normError, normResult>>
vars == <<batchVars, coordVars, apiVars, hookVars, b64Vars, intakeVars, pipeVars, reqVars, normVars>>

\* What the actions of one component leave alone: the other components.
outsideBatch == <<coordVars, apiVars, hookVars, b64Vars, intakeVars, pipeVars, reqVars, normVars>>
outsideCoord == <<batchVars, apiVars, hookVars, b64Vars, intakeVars, pipeVars, reqVars, normVars>>
outsideApi == <<coordVars, hookVars, b64Vars, intakeVars, pipeVars, reqVars, normVars>>
outsideHook == <<batchVars, coordVars, apiVars, b64Vars, intakeVars, pipeVars, reqVars, normVars>>
outsideB64 == <<batchVars, coordVars, apiVars, hookVars, intakeVars, pipeVars, reqVars, normVars>>
outsideIntake == <<coordVars, apiVars, hookVars, b64Vars, pipeVars, reqVars, normVars>>
outsidePipe == <<batchVars, coordVars, apiVars, hookVars, b64Vars, intakeVars, reqVars, normVars>>
outsideReq == <<batchVars, coordVars, apiVars, hookVars, b64Vars, intakeVars, pipeVars, normVars>>
outsideNorm == <<batchVars, coordVars, apiVars, hookVars, b64Vars, intakeVars, pipeVars, reqVars>>

Min(a, b) == IF a < b THEN a ELSE b
Max(a, b) == IF a > b THEN a ELSE b

\* ------------------------------------------------------------- JobStore
InStore(st, j) == \E k \in 1..Len(st) : st[k] = j

CountStatus(items, s) == Cardinality({k \in 1..Len(items) : items[k].status = s})

\* A job is terminal / an item is terminal.
Terminal(s) == s \in {"completed", "failed"}

\* Mutant: a job whose items are all terminal is 'completed' even when an
\* item failed.
updateJobProgressIgnoringFailures(job, t) ==
    LET completed == CountStatus(job.items, "completed")
        failed == CountStatus(job.items, "failed")
        j1 == [job EXCEPT !.progress.completed = completed,
                          !.progress.failed = failed]
    IN  IF completed + failed = j1.progress.total
        THEN [j1 EXCEPT !.status = "completed", !.completedAt = {t}]
        ELSE IF j1.status = "pending"
        THEN [j1 EXCEPT !.status = "processing",
                        !.startedAt = IF @ = {} THEN {t} ELSE @]
        ELSE j1

\* Mutant: startedAt is stamped on every update of a job that is not
\* finished, not only on the one that takes it out of 'pending'.
updateJobProgressRestamping(job, t) ==
    LET completed == CountStatus(job.items, "completed")
        failed == CountStatus(job.items, "failed")
        j1 == [job EXCEPT !.progress.completed = completed,
                          !.progress.failed = failed]
    IN  IF completed + failed = j1.progress.total
        THEN [j1 EXCEPT !.status = IF failed = 0 THEN "completed" ELSE "failed",
                        !.completedAt = {t}]
        ELSE [j1 EXCEPT !.status = "processing", !.startedAt = {t}]

updateJobProgress(job, t) ==
    LET completed == CountStatus(job.items, "completed")
        failed == CountStatus(job.items, "failed")
        j1 == [job EXCEPT !.progress.completed = completed,
                          !.progress.failed = failed]
    IN  IF completed + failed = j1.progress.total
        THEN [j1 EXCEPT !.status = IF failed = 0 THEN "completed" ELSE "failed",
                        !.completedAt = {t}]
        ELSE IF j1.status = "pending"
        THEN [j1 EXCEPT !.status = "processing",
                        !.startedAt = IF @ = {} THEN {t} ELSE @]
        ELSE j1

\* Mutant: the update is written to the first item, whatever the item id.
updateJobItemOnFirstItem(js, st, t, j, i, newItem) ==
    IF ~InStore(st, j) \/ i \notin 1..Len(js[j].items)
    THEN [threw |-> TRUE, jobs |-> js]
    ELSE [threw |-> FALSE,
          jobs |-> [js EXCEPT ![j] =
                      updateJobProgress([@ EXCEPT !.items[1] = newItem], t)]]

\* Mutant: the item is written, the progress is left for a later turn.
updateJobItemLeavingProgress(js, st, t, j, i, newItem) ==
    IF ~InStore(st, j) \/ i \notin 1..Len(js[j].items)
    THEN [threw |-> TRUE, jobs |-> js]
    ELSE [threw |-> FALSE,
          jobs |-> [js EXCEPT ![j].items[i] = newItem]]

\* updateJobItem: the update is given as the new item; the result tells
\* whether the call threw (job or item not found) and the heap afterwards.
updateJobItem(js, st, t, j, i, newItem) ==
    IF ~InStore(st, j) \/ i \notin 1..Len(js[j].items)
    THEN [threw |-> TRUE, jobs |-> js]
    ELSE [threw |-> FALSE,
          jobs |-> [js EXCEPT ![j] =
                      updateJobProgress([@ EXCEPT !.items[i] = newItem], t)]]

startJobItem(js, st, t, j, i) ==
    updateJobItem(js, st, t, j, i,
        IF i \in 1..Len(js[j].items)
        THEN [js[j].items[i] EXCEPT !.status = "processing"]
        ELSE <<>>)

completeJobItem(js, st, t, j, i) ==
    updateJobItem(js, st, t, j, i,
        IF i \in 1..Len(js[j].items)
        THEN [js[j].items[i] EXCEPT !.status = "completed",
                                    !.result = {[ok |-> TRUE]}]
        ELSE <<>>)

failJobItem(js, st, t, j, i, error) ==
    updateJobItem(js, st, t, j, i,
        IF i \in 1..Len(js[j].items)
        THEN [js[j].items[i] EXCEPT !.status = "failed",
                                    !.error = {error}]
        ELSE <<>>)

\* Stable insertion of id j into a list of ids ordered by createdAt.
RECURSIVE InsertByCreatedAt(_, _, _)
InsertByCreatedAt(js, sorted, j) ==
    IF sorted = <<>> THEN <<j>>
    ELSE IF js[Head(sorted)].createdAt <= js[j].createdAt
    THEN <<Head(sorted)>> \o InsertByCreatedAt(js, Tail(sorted), j)
    ELSE <<j>> \o sorted

\* Array.from(entries).sort by createdAt ascending (the sort is stable).
RECURSIVE SortByCreatedAt(_, _)
SortByCreatedAt(js, st) ==
    IF st = <<>> THEN <<>>
    ELSE InsertByCreatedAt(js, SortByCreatedAt(js, SubSeq(st, 1, Len(st) - 1)),
                           st[Len(st)])

\* Mutant: the capacity eviction takes the jobs from the new end.
cleanupOldJobsNewestFirst(js, st, t) ==
    LET expired == {j \in 1..Len(js) : InStore(st, j) /\ t - js[j].createdAt > JOB_TTL_MS}
        nExpired == Cardinality(expired)
        sortedJobs == SortByCreatedAt(js, st)
        excess == Len(st) - nExpired - MAX_JOBS
        oldest == IF Len(st) - nExpired > MAX_JOBS
                  THEN {sortedJobs[Len(st) + 1 - k] : k \in 1..excess}
                  ELSE {}
        jobsToDelete == expired \cup oldest
    IN  SelectSeq(st, LAMBDA j : j \notin jobsToDelete)

cleanupOldJobs(js, st, t) ==
    LET expired == {j \in 1..Len(js) : InStore(st, j) /\ t - js[j].createdAt > JOB_TTL_MS}
        nExpired == Cardinality(expired)
        sortedJobs == SortByCreatedAt(js, st)
        excess == Len(st) - nExpired - MAX_JOBS
        oldest == IF Len(st) - nExpired > MAX_JOBS
                  THEN {sortedJobs[k] : k \in 1..excess}
                  ELSE {}
        jobsToDelete == expired \cup oldest
    IN  SelectSeq(st, LAMBDA j : j \notin jobsToDelete)

\* The Job object built by createJob for n requests.
NewJob(j, n, url, t) ==
    [id |-> j,
     status |-> "pending",
     items |-> [k \in 1..n |->
                  [id |-> <<j, k>>, status |-> "pending", result |-> {},
                   error |-> {}]],
     webhookUrl |-> url,
     createdAt |-> t,
     startedAt |-> {},
     completedAt |-> {},
     progress |-> [total |-> n, completed |-> 0, failed |-> 0]]

\* ------------------------------------------------- batch orchestrator
\* Mutant: progress.pending counts the items that are 'pending'.
JobStatusOfPendingItems(job) ==
    [job_id |-> job.id,
     status |-> job.status,
     progress |-> [total |-> job.progress.total,
                   completed |-> job.progress.completed,
                   failed |-> job.progress.failed,
                   pending |-> CountStatus(job.items, "pending")],
     items |-> [k \in 1..Len(job.items) |->
                  [index |-> k - 1, status |-> job.items[k].status,
                   error |-> job.items[k].error]]]

\* The JobStatus document built by sendWebhook (and by the status route).
JobStatusOf(job) ==
    [job_id |-> job.id,
     status |-> job.status,
     progress |-> [total |-> job.progress.total,
                   completed |-> job.progress.completed,
                   failed |-> job.progress.failed,
                   pending |-> job.progress.total - job.progress.completed
                                 - job.progress.failed],
     items |-> [k \in 1..Len(job.items) |->
                  [index |-> k - 1, status |-> job.items[k].status,
                   error |-> job.items[k].error]]]

\* GET /redact/batch/:jobId: 404 for a job the store does not hold, else the
\* JobStatus document of the job as it is at that moment.
getStatus(js, st, j) ==
    IF ~InStore(st, j)
    THEN [statusCode |-> 404, body |-> [code |-> "JOB_NOT_FOUND"]]
    ELSE [statusCode |-> 200, body |-> JobStatusOf(js[j])]

\* What a synchronous segment of the background task leaves behind:
\* the heap, the task's position, and the POST it issued (if any).
Outcome(js, p, i, a, sent) ==
    [jobs |-> js, pc |-> p, cur |-> i, att |-> a, sent |-> sent]

\* sendWebhook up to its await of fetch: no job, no POST.
sendWebhook(js, st, j, webhookUrl, attempt, i) ==
    IF ~InStore(st, j)
    THEN Outcome(js, "returned", i, attempt, <<>>)
    ELSE Outcome(js, "fetch", i, attempt,
                 <<[payload |-> JobStatusOf(js[j]),
                    webhook_url |-> webhookUrl,
                    webhook_attempts |-> attempt + 1,
                    result |-> "inflight"]>>)

\* Mutant: the global WEBHOOK_URL wins over the job's own URL.
WebhookUrlGlobalFirst(job, cfg) == IF cfg # {} THEN cfg ELSE job.webhookUrl

\* job.webhookUrl || config.WEBHOOK_URL
WebhookUrlFor(job, cfg) == IF job.webhookUrl # {} THEN job.webhookUrl ELSE cfg

\* processBatchJob after the item loop (controller.ts 82-88).
AfterLoop(js, st, cfg, j, i) ==
    IF js[j].webhookUrl # {} \/ cfg # {}
    THEN sendWebhook(js, st, j, WebhookUrlFor(js[j], cfg), 0, i)
    ELSE Outcome(js, "returned", i, 0, <<>>)

\* Mutant: the loop starts item i + 1 along with item i, without waiting
\* for item i to finish.
ItemLoopStartingAhead(js, st, t, cfg, j, i) ==
    IF i > Len(js[j].items)
    THEN AfterLoop(js, st, cfg, j, i)
    ELSE LET s == startJobItem(js, st, t, j, i)
             s2 == IF i < Len(js[j].items)
                   THEN startJobItem(s.jobs, st, t, j, i + 1) ELSE s
         IN  IF s.threw
             THEN Outcome(js, "rejected", i, 0, <<>>)
             ELSE Outcome(s2.jobs, "getObject", i, 0, <<>>)

\* The item loop from the top of iteration i up to the next await.
\* A throw of startJobItem lands in the catch block, whose failJobItem
\* either records the failure (the loop goes on) or throws as well, which
\* rejects processBatchJob.
RECURSIVE ItemLoop(_, _, _, _, _, _)
ItemLoop(js, st, t, cfg, j, i) ==
    IF i > Len(js[j].items)
    THEN AfterLoop(js, st, cfg, j, i)
    ELSE LET s == startJobItem(js, st, t, j, i)
         IN  IF ~s.threw
             THEN Outcome(s.jobs, "getObject", i, 0, <<>>)
             ELSE LET f == failJobItem(js, st, t, j, i, JobNotFound)
                  IN  IF f.threw
                      THEN Outcome(js, "rejected", i, 0, <<>>)
                      ELSE ItemLoop(f.jobs, st, t, cfg, j, i + 1)

\* The catch block of iteration i for an error thrown by an awaited call.
CatchItem(js, st, t, cfg, j, i, error) ==
    LET f == failJobItem(js, st, t, j, i, error)
    IN  IF f.threw
        THEN Outcome(js, "rejected", i, 0, <<>>)
        ELSE ItemLoop(f.jobs, st, t, cfg, j, i + 1)

\* The end of the try block of iteration i: putObject has resolved.
FinishItem(js, st, t, cfg, j, i) ==
    LET c == completeJobItem(js, st, t, j, i)
    IN  IF c.threw
        THEN CatchItem(js, st, t, cfg, j, i, JobNotFound)
        ELSE ItemLoop(c.jobs, st, t, cfg, j, i + 1)

\* processBatchJob from its first line (the setImmediate callback).
processBatchJob(js, st, t, cfg, j) ==
    IF ~InStore(st, j)
    THEN Outcome(js, "returned", 0, 0, <<>>)
    ELSE ItemLoop(js, st, t, cfg, j, 1)

\* Mutant: processBatchJob is called at once, inside the request handler.
DispatchInline(js, st, t, cfg, j) == processBatchJob(js, st, t, cfg, j)

\* setImmediate(() => processBatchJob(job.id)): the task is only queued.
Dispatch(js, st, t, cfg, j) == Outcome(js, "scheduled", 0, 0, <<>>)

\* Mutant: the retry guard is off by one.
ShouldRetryOnceMore(attempt) == attempt < maxAttempts

\* if (attempt < maxAttempts - 1) in the catch block of sendWebhook.
ShouldRetry(attempt) == attempt < maxAttempts - 1

\* ------------------------------------------------------------- actions
Apply(j, r) ==
    /\ jobs' = r.jobs
    /\ pc' = [pc EXCEPT ![j] = r.pc]
    /\ cur' = [cur EXCEPT ![j] = r.cur]
    /\ att' = [att EXCEPT ![j] = r.att]
    /\ posts' = [posts EXCEPT ![j] = @ \o r.sent]

\* The components a specification does not exercise stay in these states.
CoordIdle ==
    /\ dims = [width |-> 1, height |-> 1]
    /\ region = [x |-> 0, y |-> 0, width |-> 1, height |-> 1]
    /\ resolved = {}
    /\ resolvedTwice = {}

ApiIdle == inProtocol = TRUE

HookIdle ==
    /\ hookPc = "idle"
    /\ hookAttempt = 0
    /\ hookFailure = {}
    /\ hookTimer = {}
    /\ hookSince = 0
    /\ hookWaits = <<>>
    /\ hookJobHeld = TRUE

B64Idle ==
    /\ b64Dims = [width |-> 1, height |-> 1]
    /\ b64Coords = [x |-> 0, y |-> 0, width |-> 1, height |-> 1]
    /\ b64Clamped = {}
    /\ b64Rect = {}

IntakeIdle == intake = {}

PipeIdle ==
    /\ pipeDims = [width |-> 1, height |-> 1]
    /\ pipeRegions = <<>>
    /\ pipeBuffer = <<>>
    /\ pipeDone = 0
    /\ pipeStatus = "idle"

NormIdle == normError = {} /\ normResult = {}

ReqIdle ==
    /\ reqRoute = "none"
    /\ reqKey = {}
    /\ reqPc = "idle"
    /\ reqLeft = 0
    /\ reqCalls = <<>>
    /\ reqDest = "absent"
    /\ reqMetadata = {}
    /\ reqImage = [width |-> 1, height |-> 1]
    /\ reqReply = {}

BatchIdle ==
    /\ jobs = <<>>
    /\ store = <<>>
    /\ now = 0
    /\ config = {}
    /\ pc = [j \in JobIds |-> "idle"]
    /\ cur = [j \in JobIds |-> 0]
    /\ att = [j \in JobIds |-> 0]
    /\ posts = [j \in JobIds |-> <<>>]
    /\ replies = [j \in JobIds |-> {}]

Init ==
    /\ jobs = <<>>
    /\ store = <<>>
    /\ now = 0
    /\ config \in GlobalUrls
    /\ pc = [j \in JobIds |-> "idle"]
    /\ cur = [j \in JobIds |-> 0]
    /\ att = [j \in JobIds |-> 0]
    /\ posts = [j \in JobIds |-> <<>>]
    /\ replies = [j \in JobIds |-> {}]
    /\ CoordIdle
    /\ ApiIdle
    /\ HookIdle
    /\ B64Idle
    /\ IntakeIdle
    /\ PipeIdle
    /\ ReqIdle
    /\ NormIdle

\* POST /redact/batch after batchRequestSchema.parse accepted a body of n
\* items: createJob (eviction, then insertion), the background task is
\* queued, 202 is sent.
AcceptBatch(n, url) ==
    /\ Len(jobs) < MaxJobs
    /\ LET j == Len(jobs) + 1
           js == Append(jobs, NewJob(j, n, url, now))
           st == Append(cleanupOldJobs(jobs, store, now), j)
       IN  /\ store' = st
           /\ Apply(j, Dispatch(js, st, now, config, j))
           /\ replies' = [replies EXCEPT ![j] =
                 {[job_id |-> j, items_count |-> n,
                   estimated_completion_ms |-> n * 500]}]
    /\ UNCHANGED <<now, config>>

\* POST /redact/batch with a valid body.
SubmitBatch ==
    /\ \E n \in 1..MaxItems, url \in JobUrls : AcceptBatch(n, url)
    /\ UNCHANGED outsideBatch

\* The queued task starts: processBatchJob up to its first await.
RunTask(j) ==
    /\ pc[j] = "scheduled"
    /\ Apply(j, processBatchJob(jobs, store, now, config, j))
    /\ UNCHANGED <<store, now, config, replies>>
    /\ UNCHANGED outsideBatch

GetObjectResolves(j) ==
    /\ pc[j] = "getObject"
    /\ pc' = [pc EXCEPT ![j] = "redactImage"]
    /\ UNCHANGED <<jobs, store, now, config, cur, att, posts, replies>>
    /\ UNCHANGED outsideBatch

GetObjectRejects(j) ==
    /\ pc[j] = "getObject"
    /\ \E e \in ErrorMessages :
          Apply(j, CatchItem(jobs, store, now, config, j, cur[j], e))
    /\ UNCHANGED <<store, now, config, replies>>
    /\ UNCHANGED outsideBatch

RedactImageResolves(j) ==
    /\ pc[j] = "redactImage"
    /\ pc' = [pc EXCEPT ![j] = "putObject"]
    /\ UNCHANGED <<jobs, store, now, config, cur, att, posts, replies>>
    /\ UNCHANGED outsideBatch

RedactImageRejects(j) ==
    /\ pc[j] = "redactImage"
    /\ \E e \in ErrorMessages :
          Apply(j, CatchItem(jobs, store, now, config, j, cur[j], e))
    /\ UNCHANGED <<store, now, config, replies>>
    /\ UNCHANGED outsideBatch

PutObjectResolves(j) ==
    /\ pc[j] = "putObject"
    /\ Apply(j, FinishItem(jobs, store, now, config, j, cur[j]))
    /\ UNCHANGED <<store, now, config, replies>>
    /\ UNCHANGED outsideBatch

PutObjectRejects(j) ==
    /\ pc[j] = "putObject"
    /\ \E e \in ErrorMessages :
          Apply(j, CatchItem(jobs, store, now, config, j, cur[j], e))
    /\ UNCHANGED <<store, now, config, replies>>
    /\ UNCHANGED outsideBatch

SetResult(ps, res) == [ps EXCEPT ![Len(ps)].result = res]

\* fetch resolved with response.ok: sendWebhook and processBatchJob return.
WebhookDelivered(j) ==
    /\ pc[j] = "fetch"
    /\ pc' = [pc EXCEPT ![j] = "returned"]
    /\ posts' = [posts EXCEPT ![j] = SetResult(@, "ok")]
    /\ UNCHANGED <<jobs, store, now, config, cur, att, replies>>
    /\ UNCHANGED outsideBatch

\* Mutant: after the last attempt the error is thrown on to processBatchJob.
WebhookCatchRethrowing(j) ==
    /\ pc' = [pc EXCEPT ![j] = IF ShouldRetry(att[j]) THEN "backoff" ELSE "rejected"]
    /\ posts' = [posts EXCEPT ![j] = SetResult(@, "failed")]
    /\ UNCHANGED <<jobs, store, now, config, cur, att, replies>>
    /\ UNCHANGED outsideBatch

\* The catch block of sendWebhook: wait and retry, or give up.
WebhookCatch(j) ==
    /\ pc' = [pc EXCEPT ![j] = IF ShouldRetry(att[j]) THEN "backoff" ELSE "returned"]
    /\ posts' = [posts EXCEPT ![j] = SetResult(@, "failed")]
    /\ UNCHANGED <<jobs, store, now, config, cur, att, replies>>
    /\ UNCHANGED outsideBatch

\* fetch resolved with a non-2xx response: the try block throws.
WebhookNon2xx(j) ==
    /\ pc[j] = "fetch"
    /\ WebhookCatch(j)

\* fetch rejected (transport error).
WebhookTransportError(j) ==
    /\ pc[j] = "fetch"
    /\ WebhookCatch(j)

\* The retry timer fires: sendWebhook(jobId, webhookUrl, attempt + 1).
BackoffElapsed(j) ==
    /\ pc[j] = "backoff"
    /\ Apply(j, sendWebhook(jobs, store, j, WebhookUrlFor(jobs[j], config),
                            att[j] + 1, cur[j]))
    /\ UNCHANGED <<store, now, config, replies>>
    /\ UNCHANGED outsideBatch

\* A lapse of more than JOB_TTL_MS.
LongLapse == JOB_TTL_MS + 1

\* The clock makes a long lapse.  A queued setImmediate callback runs in the
\* same turn of the event loop, so no such lapse passes before it.
Tick ==
    /\ now < MaxTime * LongLapse
    /\ \A j \in JobIds : pc[j] # "scheduled"
    /\ now' = now + LongLapse
    /\ UNCHANGED <<jobs, store, config, pc, cur, att, posts, replies>>
    /\ UNCHANGED outsideBatch

Next ==
    \/ SubmitBatch
    \/ \E j \in JobIds : RunTask(j)
    \/ \E j \in JobIds : GetObjectResolves(j)
    \/ \E j \in JobIds : GetObjectRejects(j)
    \/ \E j \in JobIds : RedactImageResolves(j)
    \/ \E j \in JobIds : RedactImageRejects(j)
    \/ \E j \in JobIds : PutObjectResolves(j)
    \/ \E j \in JobIds : PutObjectRejects(j)
    \/ \E j \in JobIds : WebhookDelivered(j)
    \/ \E j \in JobIds : WebhookNon2xx(j)
    \/ \E j \in JobIds : WebhookTransportError(j)
    \/ \E j \in JobIds : BackoffElapsed(j)
    \/ Tick

Spec == Init /\ [][Next]_vars

\* ------------------------------------------------ JobStore, called freely
\* The JobStore as a class of its own: createJob, startJobItem,
\* completeJobItem and failJobItem called in any order on any job and item
\* index.  inProtocol stays TRUE while every call that took effect was one
\* the item loop of processBatchJob makes: startJobItem on a pending item,
\* completeJobItem / failJobItem on a processing one.
StoreCall(r, expected, j, i) ==
    /\ jobs' = r.jobs
    /\ inProtocol' = (inProtocol /\ (r.threw \/ jobs[j].items[i].status = expected))
    /\ UNCHANGED <<store, now, config, pc, cur, att, posts, replies>>
    /\ UNCHANGED outsideApi

ApiCreateJob ==
    \E n \in 1..MaxItems :
        /\ Len(jobs) < MaxJobs
        /\ jobs' = Append(jobs, NewJob(Len(jobs) + 1, n, {}, now))
        /\ store' = Append(cleanupOldJobs(jobs, store, now), Len(jobs) + 1)
        /\ UNCHANGED <<now, config, pc, cur, att, posts, replies, inProtocol>>
        /\ UNCHANGED outsideApi

ApiStartJobItem ==
    \E j \in 1..Len(jobs), i \in 1..MaxItems :
        StoreCall(startJobItem(jobs, store, now, j, i), "pending", j, i)

ApiCompleteJobItem ==
    \E j \in 1..Len(jobs), i \in 1..MaxItems :
        StoreCall(completeJobItem(jobs, store, now, j, i), "processing", j, i)

ApiFailJobItem ==
    \E j \in 1..Len(jobs), i \in 1..MaxItems, e \in ErrorMessages :
        StoreCall(failJobItem(jobs, store, now, j, i, e), "processing", j, i)

StoreApiNext ==
    \/ ApiCreateJob
    \/ ApiStartJobItem
    \/ ApiCompleteJobItem
    \/ ApiFailJobItem

StoreApiInit == BatchIdle /\ CoordIdle /\ ApiIdle /\ HookIdle /\ B64Idle /\ IntakeIdle /\ PipeIdle /\ ReqIdle /\ NormIdle

StoreApiSpec == StoreApiInit /\ [][StoreApiNext]_vars

\* ------------------------------------------------ sendWebhook on the clock
\* sendWebhook of one job with the time between a failure and the next
\* attempt made explicit.  The unit is the second.
\* Seconds by which a timer may fire late.
MaxLate == 1

\* const retryDelays = [1000, 5000, 10000] (milliseconds in the source).
retryDelays == <<1, 5, 10>>

FailureKinds == {"non-2xx", "transport"}

\* Mutant: the delay is read one entry further on.
RetryDelayOfNextEntry(attempt) == retryDelays[attempt + 2]

\* const delay = retryDelays[attempt] (attempt counts from 0).
RetryDelay(attempt) == retryDelays[attempt + 1]

HookInit ==
    /\ BatchIdle
    /\ CoordIdle
    /\ ApiIdle
    /\ B64Idle
    /\ IntakeIdle
    /\ PipeIdle
    /\ ReqIdle
    /\ NormIdle
    /\ hookPc = "fetch"
    /\ hookAttempt = 0
    /\ hookFailure = {}
    /\ hookTimer = {}
    /\ hookSince = 0
    /\ hookWaits = <<>>
    /\ hookJobHeld = TRUE

\* fetch resolved with response.ok.
HookDelivered ==
    /\ hookPc = "fetch"
    /\ hookPc' = "returned"
    /\ UNCHANGED <<hookAttempt, hookFailure, hookTimer, hookSince, hookWaits,
                   hookJobHeld>>
    /\ UNCHANGED outsideHook

\* The catch block: arm the timer with retryDelays[attempt], or give up.
HookCatch(kind) ==
    /\ hookFailure' = {kind}
    /\ hookSince' = 0
    /\ IF ShouldRetry(hookAttempt)
       THEN hookPc' = "timer" /\ hookTimer' = {RetryDelay(hookAttempt)}
       ELSE hookPc' = "returned" /\ hookTimer' = {}
    /\ UNCHANGED <<hookAttempt, hookWaits, hookJobHeld>>
    /\ UNCHANGED outsideHook

HookNon2xx == hookPc = "fetch" /\ HookCatch("non-2xx")

HookTransportError == hookPc = "fetch" /\ HookCatch("transport")

\* One second passes while the timer is armed.
HookSecond ==
    /\ hookPc = "timer"
    /\ hookSince < RetryDelay(hookAttempt) + MaxLate
    /\ hookSince' = hookSince + 1
    /\ hookTimer' = {Max(0, t - 1) : t \in hookTimer}
    /\ UNCHANGED <<hookPc, hookAttempt, hookFailure, hookWaits, hookJobHeld>>
    /\ UNCHANGED outsideHook

\* A later submission evicts the job while the timer is armed.
HookJobEvicted ==
    /\ hookPc = "timer"
    /\ hookJobHeld
    /\ hookJobHeld' = FALSE
    /\ UNCHANGED <<hookPc, hookAttempt, hookFailure, hookTimer, hookSince,
                   hookWaits>>
    /\ UNCHANGED outsideHook

\* The timer fires: sendWebhook(jobId, webhookUrl, attempt + 1), which
\* returns at once for a job the store no longer holds.
HookTimerFires ==
    /\ hookPc = "timer"
    /\ hookTimer = {0}
    /\ hookTimer' = {}
    /\ hookAttempt' = hookAttempt + 1
    /\ IF hookJobHeld
       THEN /\ hookPc' = "fetch"
            /\ hookWaits' = Append(hookWaits,
                   [after |-> hookFailure, waited |-> hookSince])
       ELSE /\ hookPc' = "returned"
            /\ UNCHANGED hookWaits
    /\ UNCHANGED <<hookFailure, hookSince, hookJobHeld>>
    /\ UNCHANGED outsideHook

HookNext ==
    \/ HookDelivered
    \/ HookNon2xx
    \/ HookTransportError
    \/ HookSecond
    \/ HookJobEvicted
    \/ HookTimerFires

HookSpec == HookInit /\ [][HookNext]_vars

\* -------------------------------------------------- coordinate resolver
\* Largest image side and largest pixel coordinate / extent drawn.
MaxDim == 3
MaxCoord == 4
\* Unit-interval values are the fractions k / UnitDenominator, k in
\* 0..UnitDenominator (exact in binary floating point for a power of two).
UnitDenominator == 4

\* Math.round(k / UnitDenominator * d): the nearest integer, halves upwards.
RoundScaled(k, d) == (2 * k * d + UnitDenominator) \div (2 * UnitDenominator)

isPixelCoordinates(coords) == {"x", "y", "width", "height"} \subseteq DOMAIN coords

isNormalizedCoordinates(coords) ==
    {"x_norm", "y_norm", "w_norm", "h_norm"} \subseteq DOMAIN coords

normalizedToPixel(coords, dimensions) ==
    [x |-> RoundScaled(coords.x_norm, dimensions.width),
     y |-> RoundScaled(coords.y_norm, dimensions.height),
     width |-> RoundScaled(coords.w_norm, dimensions.width),
     height |-> RoundScaled(coords.h_norm, dimensions.height)]

toPixelCoordinates(coords, dimensions) ==
    IF isPixelCoordinates(coords) THEN coords
    ELSE normalizedToPixel(coords, dimensions)

\* Mutant: the extent is clamped to the image size, not to the space left
\* after the origin.
clampToImageSize(coords, dimensions) ==
    LET x == Max(0, Min(coords.x, dimensions.width))
        y == Max(0, Min(coords.y, dimensions.height))
    IN  [x |-> x, y |-> y,
         width |-> Max(1, Min(coords.width, dimensions.width)),
         height |-> Max(1, Min(coords.height, dimensions.height))]

clampToImageBounds(coords, dimensions) ==
    LET x == Max(0, Min(coords.x, dimensions.width))
        y == Max(0, Min(coords.y, dimensions.height))
        maxWidth == dimensions.width - x
        maxHeight == dimensions.height - y
    IN  [x |-> x, y |-> y,
         width |-> Max(1, Min(coords.width, maxWidth)),
         height |-> Max(1, Min(coords.height, maxHeight))]

processCoordinates(coords, dimensions) ==
    clampToImageBounds(toPixelCoordinates(coords, dimensions), dimensions)

\* The values accepted by pixelCoordinatesSchema / normalizedCoordinatesSchema.
PixelRegions ==
    [x : 0..MaxCoord, y : 0..MaxCoord, width : 1..MaxCoord, height : 1..MaxCoord]

UnitRegions ==
    [x_norm : 0..UnitDenominator, y_norm : 0..UnitDenominator,
     w_norm : 0..UnitDenominator, h_norm : 0..UnitDenominator]

SmallDims == [width : 1..MaxDim, height : 1..MaxDim]

\* The 400 x 300 image and the region of the clamping example.
ExampleDims == [width |-> 400, height |-> 300]
ExampleRegion == [x |-> 350, y |-> 250, width |-> 100, height |-> 100]

CoordInit ==
    /\ BatchIdle
    /\ ApiIdle
    /\ HookIdle
    /\ B64Idle
    /\ IntakeIdle
    /\ PipeIdle
    /\ ReqIdle
    /\ NormIdle
    /\ \/ dims \in SmallDims /\ region \in PixelRegions \cup UnitRegions
       \/ dims = ExampleDims /\ region = ExampleRegion
    /\ resolved = {}
    /\ resolvedTwice = {}

ResolveRegion ==
    /\ resolved = {}
    /\ resolved' = {processCoordinates(region, dims)}
    /\ UNCHANGED <<dims, region, resolvedTwice>>
    /\ UNCHANGED outsideCoord

ResolveAgain ==
    /\ resolved # {}
    /\ resolvedTwice = {}
    /\ resolvedTwice' = {processCoordinates(r, dims) : r \in resolved}
    /\ UNCHANGED <<dims, region, resolved>>
    /\ UNCHANGED outsideCoord

CoordNext == ResolveRegion \/ ResolveAgain

CoordSpec == CoordInit /\ [][CoordNext]_vars

\* ------------------------------------------------- base64 route, regions
\* The numbers of a submitted region are any numbers (coordsSchema: x and y
\* unconstrained, width and height positive).  A number is held as its
\* numerator over UnitDenominator: 1 pixel (or the normalized value 1) is
\* UnitDenominator, half a pixel is UnitDenominator / 2.
Unit == UnitDenominator

\* Math.round(v), in the same unit.
RoundToWhole(v) == RoundScaled(v, 1) * Unit

\* coords.x <= 1 && coords.y <= 1 && coords.width <= 1 && coords.height <= 1
LooksNormalized(coords) ==
    coords.x <= Unit /\ coords.y <= Unit /\ coords.width <= Unit /\ coords.height <= Unit

\* One turn of the clamp loop of the handler (part_008 152-227): the region
\* after clamping, or the 400 INVALID_REGION reply.
clampRegion(coords, imgWidth, imgHeight) ==
    IF LooksNormalized(coords)
    THEN LET x == Max(0, Min(Unit, coords.x))
             y == Max(0, Min(Unit, coords.y))
             width == Max(0, Min(Unit - x, coords.width))
             height == Max(0, Min(Unit - y, coords.height))
         IN  [rejected |-> (width <= 0 \/ height <= 0),
              coords |-> [x |-> x, y |-> y, width |-> width, height |-> height]]
    ELSE LET x == Max(0, Min((imgWidth - 1) * Unit, RoundToWhole(coords.x)))
             y == Max(0, Min((imgHeight - 1) * Unit, RoundToWhole(coords.y)))
             width == Max(Unit, Min(imgWidth * Unit - x, RoundToWhole(coords.width)))
             height == Max(Unit, Min(imgHeight * Unit - y, RoundToWhole(coords.height)))
         IN  [rejected |-> FALSE,
              coords |-> [x |-> x, y |-> y, width |-> width, height |-> height]]

\* convertToInternalRegion: the coordinates of the internal Region (pixel
\* coordinates are whole pixels, normalized ones numerators over Unit).
convertToInternalRegion(coords) ==
    IF LooksNormalized(coords)
    THEN [x_norm |-> coords.x, y_norm |-> coords.y,
          w_norm |-> coords.width, h_norm |-> coords.height]
    ELSE [x |-> RoundScaled(coords.x, 1), y |-> RoundScaled(coords.y, 1),
          width |-> RoundScaled(coords.width, 1),
          height |-> RoundScaled(coords.height, 1)]

\* The numbers drawn for x and y (negative, fractional, whole, beyond the
\* image) and for width and height (positive).
B64Origins ==
    {-2 * Unit, -(Unit \div 2), 0, Unit \div 2, Unit, Unit + 1, 2 * Unit,
     MaxCoord * Unit}
B64Extents ==
    {1, Unit \div 2, Unit, Unit + 1, 2 * Unit, MaxCoord * Unit}

B64Init ==
    /\ BatchIdle
    /\ CoordIdle
    /\ ApiIdle
    /\ HookIdle
    /\ IntakeIdle
    /\ PipeIdle
    /\ ReqIdle
    /\ NormIdle
    /\ b64Dims \in SmallDims
    /\ b64Coords \in [x : B64Origins, y : B64Origins,
                      width : B64Extents, height : B64Extents]
    /\ b64Clamped = {}
    /\ b64Rect = {}

\* The clamp loop runs over the region.
B64ClampRegion ==
    /\ b64Clamped = {}
    /\ b64Clamped' = {clampRegion(b64Coords, b64Dims.width, b64Dims.height)}
    /\ UNCHANGED <<b64Dims, b64Coords, b64Rect>>
    /\ UNCHANGED outsideB64

\* No rejection: the region is converted and redactImage resolves it.
B64ResolveRegion ==
    /\ b64Rect = {}
    /\ \E c \in b64Clamped :
          /\ ~c.rejected
          /\ b64Rect' = {processCoordinates(convertToInternalRegion(c.coords),
                                            b64Dims)}
    /\ UNCHANGED <<b64Dims, b64Coords, b64Clamped>>
    /\ UNCHANGED outsideB64

B64Next == B64ClampRegion \/ B64ResolveRegion

B64Spec == B64Init /\ [][B64Next]_vars

\* ------------------------------------------------ batch route, the body
\* batchRequestSchema: .min(1).max(10) items; regions .min(1).max(20).
maxBatchItems == 10
maxRegions == 20
\* Batch submissions accepted in one behaviour of the intake specification.
MaxIntakeJobs == 1

pixelCoordinatesSchema(c) ==
    /\ DOMAIN c = {"x", "y", "width", "height"}
    /\ c.x >= 0 /\ c.y >= 0 /\ c.width >= 1 /\ c.height >= 1

normalizedCoordinatesSchema(c) ==
    /\ DOMAIN c = {"x_norm", "y_norm", "w_norm", "h_norm"}
    /\ \A f \in DOMAIN c : 0 <= c[f] /\ c[f] <= UnitDenominator

\* regionSchema, for the coordinates of a region (the operation is left out).
regionSchema(r) == pixelCoordinatesSchema(r) \/ normalizedCoordinatesSchema(r)

\* Mutant: an item may come without regions.
batchItemSchemaWithoutMin(item) ==
    /\ Len(item.regions) <= maxRegions
    /\ \A k \in 1..Len(item.regions) : regionSchema(item.regions[k])

\* batchItemSchema = s3RedactionRequestSchema, for the regions of an item.
batchItemSchema(item) ==
    /\ Len(item.regions) >= 1
    /\ Len(item.regions) <= maxRegions
    /\ \A k \in 1..Len(item.regions) : regionSchema(item.regions[k])

batchRequestSchema(body) ==
    /\ Len(body.items) >= 1
    /\ Len(body.items) <= maxBatchItems
    /\ \A k \in 1..Len(body.items) : batchItemSchema(body.items[k])

\* The bodies drawn: up to MaxItems items, each with 0, 1, 20 or 21 good
\* regions or with a malformed region (width 0; a negative x_norm), and a
\* body of 11 good items.
GoodRegion == [x |-> 0, y |-> 0, width |-> 1, height |-> 1]
ZeroWidthRegion == [x |-> 0, y |-> 0, width |-> 0, height |-> 1]
NegativeNormRegion == [x_norm |-> -1, y_norm |-> 0, w_norm |-> 1, h_norm |-> 1]
GoodRegions(n) == [k \in 1..n |-> GoodRegion]
GoodItem == [regions |-> GoodRegions(1)]

SampleItems ==
    {[regions |-> GoodRegions(n)] : n \in {0, 1, maxRegions, maxRegions + 1}}
    \cup {[regions |-> <<ZeroWidthRegion>>],
          [regions |-> <<GoodRegion, NegativeNormRegion>>]}

RECURSIVE SeqsUpTo(_, _)
SeqsUpTo(S, n) ==
    IF n = 0 THEN {<<>>}
    ELSE LET shorter == SeqsUpTo(S, n - 1)
         IN  shorter \cup {Append(q, x) : q \in shorter, x \in S}

Bodies ==
    [items : SeqsUpTo(SampleItems, MaxItems)
                \cup {[k \in 1..(maxBatchItems + 1) |-> GoodItem]},
     webhook_url : JobUrls]

IntakeInit ==
    /\ BatchIdle
    /\ CoordIdle
    /\ ApiIdle
    /\ HookIdle
    /\ B64Idle
    /\ IntakeIdle
    /\ PipeIdle
    /\ ReqIdle
    /\ NormIdle

\* POST /redact/batch with any body: 400 VALIDATION_ERROR when the schema
\* rejects it, else the job is created and 202 is sent.
PostBatch ==
    /\ \E body \in Bodies :
          IF batchRequestSchema(body)
          THEN /\ Len(jobs) < MaxIntakeJobs
               /\ AcceptBatch(Len(body.items), body.webhook_url)
               /\ intake' = {[body |-> body, status |-> 202, code |-> "Accepted"]}
          ELSE /\ intake' = {[body |-> body, status |-> 400,
                              code |-> "VALIDATION_ERROR"]}
               /\ UNCHANGED batchVars
    /\ UNCHANGED outsideIntake

IntakeNext ==
    \/ PostBatch
    \/ \E j \in JobIds : RunTask(j)
    \/ \E j \in JobIds : GetObjectResolves(j)
    \/ \E j \in JobIds : GetObjectRejects(j)
    \/ \E j \in JobIds : RedactImageResolves(j)
    \/ \E j \in JobIds : RedactImageRejects(j)
    \/ \E j \in JobIds : PutObjectResolves(j)
    \/ \E j \in JobIds : PutObjectRejects(j)
    \/ \E j \in JobIds : WebhookDelivered(j)
    \/ \E j \in JobIds : WebhookNon2xx(j)
    \/ \E j \in JobIds : WebhookTransportError(j)
    \/ \E j \in JobIds : BackoffElapsed(j)

IntakeSpec == IntakeInit /\ [][IntakeNext]_vars

\* ------------------------------------------------------ image pipeline
\* processImage on a decoded image.  A buffer gives the value of every
\* pixel <<x, y>>.  Values are kept symbolic: a pixel of the source, an
\* opaque colour, a translucent colour over a value, or the output of blur /
\* pixelate at a position of the extracted region.  Source pixels are opaque.
\* Longest region list drawn.
MaxOps == 2

\* The decoded image of the experiment.
PipeDims == [width |-> 2, height |-> 2]

Pixels(dimensions) == (0..(dimensions.width - 1)) \X (0..(dimensions.height - 1))

SourceBuffer(dimensions) == [q \in Pixels(dimensions) |-> [src |-> q]]

\* The positions of a width x height rectangle, relative to its corner.
Offsets(coords) == (0..(coords.width - 1)) \X (0..(coords.height - 1))

InRect(q, coords) ==
    /\ coords.x <= q[1] /\ q[1] < coords.x + coords.width
    /\ coords.y <= q[2] /\ q[2] < coords.y + coords.height

\* sharp refuses an extract area or an overlay that leaves the image.
FitsImage(coords, dimensions) ==
    /\ coords.x + coords.width <= dimensions.width
    /\ coords.y + coords.height <= dimensions.height

\* sharp(...).extract({left, top, width, height})
extract(buffer, coords) ==
    [o \in Offsets(coords) |-> buffer[<<coords.x + o[1], coords.y + o[2]>>]]

\* blend 'over' of one overlay pixel on the pixel under it.
blendOver(top, under) ==
    IF "alpha" \notin DOMAIN top \/ top.alpha = 255
    THEN [c \in DOMAIN top \ {"alpha"} |-> top[c]]
    ELSE IF top.alpha = 0 THEN under
    ELSE [over |-> top, under |-> under]

\* Mutant: the overlay is laid on the source image, so a pixel an earlier
\* operation wrote keeps that value (first write wins).
compositeOnSource(buffer, overlay, coords) ==
    [q \in DOMAIN buffer |->
        IF InRect(q, coords) /\ buffer[q] = [src |-> q]
        THEN blendOver(overlay[<<q[1] - coords.x, q[2] - coords.y>>], buffer[q])
        ELSE buffer[q]]

\* sharp(currentBuffer).composite([{input, left, top}])
composite(buffer, overlay, coords) ==
    [q \in DOMAIN buffer |->
        IF InRect(q, coords)
        THEN blendOver(overlay[<<q[1] - coords.x, q[2] - coords.y>>], buffer[q])
        ELSE buffer[q]]

applyBlur(buffer, coords, sigma) ==
    LET extracted == extract(buffer, coords)
    IN  composite(buffer,
                  [o \in Offsets(coords) |-> [blur |-> sigma, at |-> o, of |-> extracted]],
                  coords)

applyPixelate(buffer, coords, blockSize) ==
    LET extracted == extract(buffer, coords)
    IN  composite(buffer,
                  [o \in Offsets(coords) |->
                      [pixelate |-> blockSize, at |-> o, of |-> extracted]],
                  coords)

\* A colour is #RRGGBB (alpha = {}) or #RRGGBBAA (alpha = {a}); the overlay
\* gets a = hex.length === 8 ? parseInt(AA) : 255.
applyFill(buffer, coords, color) ==
    LET a == IF color.alpha = {} THEN 255 ELSE CHOOSE v \in color.alpha : TRUE
    IN  composite(buffer,
                  [o \in Offsets(coords) |-> [rgb |-> color.rgb, alpha |-> a]],
                  coords)

\* BLUR_SIZE_MAP / PIXELATE_SIZE_MAP for size 'M'.
BlurSigmaM == 6
PixelateBlockM == 12

applyOperation(buffer, coords, operation) ==
    CASE operation.type = "blur" -> applyBlur(buffer, coords, BlurSigmaM)
      [] operation.type = "pixelate" -> applyPixelate(buffer, coords, PixelateBlockM)
      [] operation.type = "fill" -> applyFill(buffer, coords, operation.color)

Red == [rgb |-> "FF0000", alpha |-> {}]
Blue == [rgb |-> "0000FF", alpha |-> {}]
TranslucentGreen == [rgb |-> "00FF00", alpha |-> {128}]

PipeOperations ==
    {[type |-> "fill", color |-> c] : c \in {Red, Blue, TranslucentGreen}}
    \cup {[type |-> "blur", size |-> "M"], [type |-> "pixelate", size |-> "M"]}

\* Pixel coordinates accepted by the schema, in and around the image.
PipeCoordinates ==
    [x : 0..PipeDims.width, y : 0..(PipeDims.height - 1),
     width : 1..PipeDims.width, height : 1..PipeDims.height]

PipeRegionSet == [coordinates : PipeCoordinates, operation : PipeOperations]

PipeInit ==
    /\ BatchIdle
    /\ CoordIdle
    /\ ApiIdle
    /\ HookIdle
    /\ B64Idle
    /\ IntakeIdle
    /\ ReqIdle
    /\ NormIdle
    /\ pipeDims = PipeDims
    /\ pipeRegions \in SeqsUpTo(PipeRegionSet, MaxOps) \ {<<>>}
    /\ pipeBuffer = SourceBuffer(PipeDims)
    /\ pipeDone = 0
    /\ pipeStatus = "running"

\* One turn of the loop over the regions (pipeline.ts 217-221).
PipeApplyRegion ==
    /\ pipeStatus = "running"
    /\ pipeDone < Len(pipeRegions)
    /\ LET next == pipeRegions[pipeDone + 1]
           pixelCoords == processCoordinates(next.coordinates, pipeDims)
       IN  IF FitsImage(pixelCoords, pipeDims)
           THEN /\ pipeBuffer' = applyOperation(pipeBuffer, pixelCoords,
                                                next.operation)
                /\ pipeDone' = pipeDone + 1
                /\ UNCHANGED pipeStatus
           ELSE /\ pipeStatus' = "failed"
                /\ UNCHANGED <<pipeBuffer, pipeDone>>
    /\ UNCHANGED <<pipeDims, pipeRegions>>
    /\ UNCHANGED outsidePipe

\* After the loop: the buffer is encoded.
PipeEncode ==
    /\ pipeStatus = "running"
    /\ pipeDone = Len(pipeRegions)
    /\ pipeStatus' = "encoded"
    /\ UNCHANGED <<pipeDims, pipeRegions, pipeBuffer, pipeDone>>
    /\ UNCHANGED outsidePipe

PipeNext == PipeApplyRegion \/ PipeEncode

PipeSpec == PipeInit /\ [][PipeNext]_vars

\* ------------------------------------------------- one image, end to end
\* One image on its way through a route: POST /redact (multipart), POST
\* /redact/base64, POST /redact/s3, or one turn of the item loop of
\* processBatchJob.  The awaited calls are the steps; reqCalls lists the
\* storage calls and redactImage as they are started.
Routes == {"multipart", "base64", "s3", "batch"}
StorageRoutes == {"s3", "batch"}

\* idempotency_key: z.string().optional() -- absent, empty, or a key; a
\* batch item has the same schema.
Keys == {{}, {""}, {"key-1"}}

\* A string is truthy unless it is empty; undefined is falsy.
Truthy(key) == key # {} /\ key # {""}

\* The awaits inside redactImage: validateInput, then in processImage
\* getImageMetadata, one applyOperation per region (its coordinates are
\* resolved first), and the final toBuffer.
RedactStages == {"validateInput", "metadata", "applyOperation", "encode"}

\* Largest side of a source image.
MaxSide == 3

\* config MAX_PIXELS (8294400 by default, scaled to the model's images).
MAX_PIXELS == 4

ErrorReply(code, stage) ==
    {[ok |-> FALSE, image |-> FALSE, processing_time_ms |-> "none", code |-> code,
      failedAt |-> stage]}

OkReply(image, time) ==
    {[ok |-> TRUE, image |-> image, processing_time_ms |-> time, code |-> "none",
      failedAt |-> "none"]}

\* The catch block of the route (normalizeError and an error reply), or of
\* the item loop (failJobItem).
ReqFail(code, stage) ==
    /\ reqReply' = ErrorReply(code, stage)
    /\ reqPc' = "done"
    /\ UNCHANGED <<reqRoute, reqKey, reqLeft, reqCalls, reqDest, reqMetadata, reqImage>>

\* A 400 reply sent before any processing.
ReqReject(code) ==
    /\ reqReply' = ErrorReply(code, "request")
    /\ reqPc' = "done"
    /\ UNCHANGED <<reqRoute, reqKey, reqLeft, reqCalls, reqDest, reqMetadata, reqImage>>

ReqCall(name, position) ==
    /\ reqCalls' = Append(reqCalls, name)
    /\ reqPc' = position
    /\ UNCHANGED <<reqRoute, reqKey, reqLeft, reqDest, reqMetadata, reqImage, reqReply>>

\* generateRequestHash({input, output, regions}): the SHA-256 of the three
\* fields of the request in sorted key order, one value per request.
generateRequestHash == "sha256(input,output,regions)"

\* const idempotencyKey = requestData.idempotency_key || generateRequestHash(...)
idempotencyKey(key) == IF Truthy(key) THEN key ELSE {generateRequestHash}

\* Mutant: the existence check is honoured whether or not a key came.
ShouldSkipOnExistence(outputExists, key) == outputExists

\* Mutant: the existence check is honoured for every request but those
\* with a key.
ShouldSkipWithoutKey(outputExists, key) == outputExists /\ ~Truthy(key)

\* if (outputExists && requestData.idempotency_key)
ShouldSkip(outputExists, key) == outputExists /\ Truthy(key)

ReqInit ==
    /\ BatchIdle
    /\ CoordIdle
    /\ ApiIdle
    /\ HookIdle
    /\ B64Idle
    /\ IntakeIdle
    /\ PipeIdle
    /\ NormIdle
    /\ reqRoute \in Routes
    /\ reqKey \in (IF reqRoute \in StorageRoutes THEN Keys ELSE {{}})
    /\ reqPc = "received"
    /\ reqLeft \in 1..MaxOps
    /\ reqCalls = <<>>
    /\ reqDest \in (IF reqRoute \in StorageRoutes THEN {"absent", "earlier"}
                     ELSE {"absent"})
    /\ reqMetadata = {}
    /\ reqImage \in [width : 1..MaxSide, height : 1..MaxSide]
    /\ reqReply = {}

\* POST /redact/s3 up to its first await: the body is parsed, then
\* objectExists is called for the output.
S3Received ==
    /\ reqRoute = "s3" /\ reqPc = "received"
    /\ \/ ReqReject("VALIDATION_ERROR")
       \/ ReqCall("objectExists", "objectExists")
    /\ UNCHANGED outsideReq

\* objectExists resolved: the request is answered at once when it may skip,
\* else the input is downloaded.
S3ExistsResolves ==
    /\ reqPc = "objectExists"
    /\ LET outputExists == reqDest # "absent"
       IN  IF ShouldSkip(outputExists, reqKey)
           THEN /\ reqReply' = OkReply(FALSE, "0")
                /\ reqPc' = "done"
                /\ UNCHANGED <<reqRoute, reqKey, reqLeft, reqCalls, reqDest, reqMetadata, reqImage>>
           ELSE ReqCall("getObject", "getObject")
    /\ UNCHANGED outsideReq

\* objectExists rethrows every error that is not NoSuchKey / NotFound.
S3ExistsRejects ==
    /\ reqPc = "objectExists"
    /\ ReqFail("S3_ERROR", "objectExists")
    /\ UNCHANGED outsideReq

\* One turn of the item loop up to its first await: startJobItem, getObject.
BatchItemStarts ==
    /\ reqRoute = "batch" /\ reqPc = "received"
    /\ ReqCall("getObject", "getObject")
    /\ UNCHANGED outsideReq

ReqGetObjectResolves ==
    /\ reqPc = "getObject"
    /\ ReqCall("redactImage", "validateInput")
    /\ UNCHANGED outsideReq

ReqGetObjectRejects ==
    /\ reqPc = "getObject"
    /\ ReqFail("S3_ERROR", "getObject")
    /\ UNCHANGED outsideReq

\* POST /redact up to request.file().
MultipartReceived ==
    /\ reqRoute = "multipart" /\ reqPc = "received"
    /\ reqPc' = "file"
    /\ UNCHANGED <<reqRoute, reqKey, reqLeft, reqCalls, reqDest, reqMetadata, reqImage, reqReply>>
    /\ UNCHANGED outsideReq

\* request.file() resolved: no file, no ops, ops the schema rejects, or
\* data.toBuffer() is awaited.
MultipartFileResolves ==
    /\ reqPc = "file"
    /\ \/ \E code \in {"MISSING_FILE", "MISSING_OPS", "VALIDATION_ERROR"} :
             ReqReject(code)
       \/ /\ reqPc' = "toBuffer"
          /\ UNCHANGED <<reqRoute, reqKey, reqLeft, reqCalls, reqDest, reqMetadata, reqImage, reqReply>>
    /\ UNCHANGED outsideReq

MultipartToBufferResolves ==
    /\ reqPc = "toBuffer"
    /\ ReqCall("redactImage", "validateInput")
    /\ UNCHANGED outsideReq

MultipartReadRejects ==
    /\ reqPc \in {"file", "toBuffer"}
    /\ ReqFail("INTERNAL_ERROR", "request")
    /\ UNCHANGED outsideReq

\* POST /redact/base64 up to sharp(imageBuffer).metadata().
Base64Received ==
    /\ reqRoute = "base64" /\ reqPc = "received"
    /\ \/ \E code \in {"VALIDATION_ERROR", "INVALID_IMAGE"} : ReqReject(code)
       \/ /\ reqPc' = "sharpMetadata"
          /\ UNCHANGED <<reqRoute, reqKey, reqLeft, reqCalls, reqDest, reqMetadata, reqImage, reqReply>>
    /\ UNCHANGED outsideReq

\* metadata() resolved: a zero dimension, a region the clamp loop rejects,
\* or redactImage is called.
Base64MetadataResolves ==
    /\ reqPc = "sharpMetadata"
    /\ \/ \E code \in {"INVALID_IMAGE", "INVALID_REGION"} : ReqReject(code)
       \/ ReqCall("redactImage", "validateInput")
    /\ UNCHANGED outsideReq

Base64MetadataRejects ==
    /\ reqPc = "sharpMetadata"
    /\ ReqReject("INVALID_IMAGE")
    /\ UNCHANGED outsideReq

\* Mutant: the limit is taken two pixels too high.
validateImageDimensionsLenient(metadata) ==
    ~(metadata.width * metadata.height > MAX_PIXELS + 2)

\* validateImageDimensions: TRUE when it returns, FALSE when it throws.
validateImageDimensions(metadata) ==
    ~(metadata.width * metadata.height > MAX_PIXELS)

\* The codes a failure inside redactImage can carry: validateInput checks
\* the size, the MIME type, then reads the metadata and checks the pixel
\* count; processImage wraps what it catches in ImagePipelineError.
RejectionCodes(stage, metadata) ==
    IF stage = "validateInput"
    THEN {"PAYLOAD_TOO_LARGE", "UNSUPPORTED_MEDIA_TYPE", "INVALID_IMAGE"}
         \cup (IF validateImageDimensions(metadata) THEN {} ELSE {"IMAGE_TOO_LARGE"})
    ELSE {"PIPELINE_ERROR"}

\* Mutant: the image is handed on after the first region.
AfterStageHandingOnEarly(stage, left) ==
    CASE stage = "validateInput" -> "metadata"
      [] stage = "metadata" -> "applyOperation"
      [] stage = "applyOperation" -> "resolved"
      [] stage = "encode" -> "resolved"

\* Where redactImage stands after an await of it resolved, with the number
\* of regions left once it did.
AfterStage(stage, left) ==
    CASE stage = "validateInput" -> "metadata"
      [] stage = "metadata" -> "applyOperation"
      [] stage = "applyOperation" -> IF left > 0 THEN "applyOperation" ELSE "encode"
      [] stage = "encode" -> "resolved"

\* An await inside redactImage resolved; validateInput and processImage go
\* on after reading the metadata only when validateImageDimensions does not
\* throw.  When redactImage itself resolves,
\* the storage routes call putObject and the others send the image.
RedactStageResolves ==
    /\ reqPc \in RedactStages
    /\ reqPc \in {"validateInput", "metadata"} => validateImageDimensions(reqImage)
    /\ LET left == IF reqPc = "applyOperation" THEN reqLeft - 1 ELSE reqLeft
           position == AfterStage(reqPc, left)
       IN  /\ reqLeft' = left
           /\ IF position # "resolved"
              THEN reqPc' = position /\ UNCHANGED <<reqCalls, reqReply>>
              ELSE IF reqRoute \in StorageRoutes
              THEN /\ reqPc' = "putObject"
                   /\ reqCalls' = Append(reqCalls, "putObject")
                   /\ UNCHANGED reqReply
              ELSE /\ reqPc' = "done"
                   /\ reqReply' = OkReply(TRUE, "measured")
                   /\ UNCHANGED reqCalls
    /\ UNCHANGED <<reqRoute, reqKey, reqDest, reqMetadata, reqImage>>
    /\ UNCHANGED outsideReq

\* An await inside redactImage rejected, or the code after it threw.
RedactStageRejects ==
    /\ reqPc \in RedactStages
    /\ \E code \in RejectionCodes(reqPc, reqImage) : ReqFail(code, reqPc)
    /\ UNCHANGED outsideReq

\* putObject resolved: the object is created or replaced, with the metadata
\* of the call (the item loop sends x-job-id and x-item-id, no key); then
\* the reply of the S3 route, completeJobItem of the loop.
ReqPutObjectResolves ==
    /\ reqPc = "putObject"
    /\ reqDest' = IF reqDest = "absent" THEN "written" ELSE "overwritten"
    /\ reqMetadata' = IF reqRoute = "s3" THEN idempotencyKey(reqKey) ELSE {}
    /\ reqReply' = OkReply(FALSE, "measured")
    /\ reqPc' = "done"
    /\ UNCHANGED <<reqRoute, reqKey, reqLeft, reqCalls, reqImage>>
    /\ UNCHANGED outsideReq

ReqPutObjectRejects ==
    /\ reqPc = "putObject"
    /\ ReqFail("S3_ERROR", "putObject")
    /\ UNCHANGED outsideReq

ReqNext ==
    \/ S3Received
    \/ S3ExistsResolves
    \/ S3ExistsRejects
    \/ BatchItemStarts
    \/ ReqGetObjectResolves
    \/ ReqGetObjectRejects
    \/ MultipartReceived
    \/ MultipartFileResolves
    \/ MultipartToBufferResolves
    \/ MultipartReadRejects
    \/ Base64Received
    \/ Base64MetadataResolves
    \/ Base64MetadataRejects
    \/ RedactStageResolves
    \/ RedactStageRejects
    \/ ReqPutObjectResolves
    \/ ReqPutObjectRejects

ReqSpec == ReqInit /\ [][ReqNext]_vars

\* ------------------------------------------------- createJob over time
\* createJob called again and again while the clock moves: the store as
\* cleanupOldJobs leaves it.  The clock moves one unit (JOB_TTL_MS) at a time.
MaxEvictJobs == 5
MaxEvictTime == 3

EvictInit ==
    /\ BatchIdle
    /\ CoordIdle
    /\ ApiIdle
    /\ HookIdle
    /\ B64Idle
    /\ IntakeIdle
    /\ PipeIdle
    /\ ReqIdle
    /\ NormIdle

\* createJob: the Job is built, cleanupOldJobs runs, the job is set.
EvictCreateJob ==
    /\ Len(jobs) < MaxEvictJobs
    /\ \E n \in 1..MaxItems :
         jobs' = Append(jobs, NewJob(Len(jobs) + 1, n, {}, now))
    /\ store' = Append(cleanupOldJobs(jobs, store, now), Len(jobs) + 1)
    /\ UNCHANGED <<now, config, pc, cur, att, posts, replies>>
    /\ UNCHANGED outsideBatch

EvictTick ==
    /\ now < MaxEvictTime
    /\ now' = now + 1
    /\ UNCHANGED <<jobs, store, config, pc, cur, att, posts, replies>>
    /\ UNCHANGED outsideBatch

EvictNext == EvictCreateJob \/ EvictTick

EvictSpec == EvictInit /\ [][EvictNext]_vars

\* ------------------------------------------------------- normalizeError
\* The values a catch block of a route can hold, and normalizeError applied
\* to them.  A message is held as the set of the substrings normalizeError
\* looks for that occur in it.
MessageMarkers == {"exceeds maximum", "MIME", "Unsupported"}

\* S3ServiceError as getObject, putObject and objectExists throw it.  The
\* message names the bucket and the key of the request ("Object not found:
\* s3://bucket/key"), or quotes the message of the underlying error, so it
\* may contain any text.
S3ServiceErrors ==
    [instanceOfRedactionError : {FALSE}, isError : {TRUE},
     name : {"S3ServiceError"},
     code : {"OBJECT_NOT_FOUND", "BUCKET_NOT_FOUND", "ACCESS_DENIED", "S3_DOWNLOAD_ERROR"},
     statusCode : {403, 404, 500},
     message : SUBSET MessageMarkers]

S3ServiceErrorsThrown ==
    {e \in S3ServiceErrors :
        \/ e.code \in {"OBJECT_NOT_FOUND", "BUCKET_NOT_FOUND"} /\ e.statusCode = 404
        \/ e.code = "ACCESS_DENIED" /\ e.statusCode = 403
        \/ e.code = "S3_DOWNLOAD_ERROR" /\ e.statusCode = 500}

\* The other errors of the service: RedactionServiceError (validateInput,
\* validateRegions, redactImage), ImagePipelineError, errors of the
\* framework, and instances of RedactionError.
ServiceErrors ==
    [instanceOfRedactionError : {FALSE}, isError : {TRUE},
     name : {"RedactionServiceError"},
     code : {"PAYLOAD_TOO_LARGE", "UNSUPPORTED_MEDIA_TYPE", "IMAGE_TOO_LARGE",
             "INVALID_IMAGE", "PIPELINE_ERROR"},
     statusCode : {400, 413, 415, 500},
     message : SUBSET MessageMarkers]

OtherErrors ==
    [instanceOfRedactionError : {FALSE}, isError : {TRUE},
     name : {"ImagePipelineError", "ValidationError", "PayloadTooLargeError", "Error"},
     code : {"none"}, statusCode : {0},
     message : SUBSET MessageMarkers]

RedactionErrors ==
    [instanceOfRedactionError : {TRUE}, isError : {TRUE},
     name : {"RedactionError"},
     code : {"VALIDATION_ERROR", "S3_ERROR"}, statusCode : {400, 404},
     message : {{}}]

\* A thrown value that is no Error.
NotAnError ==
    [instanceOfRedactionError |-> FALSE, isError |-> FALSE, name |-> "none",
     code |-> "none", statusCode |-> 0, message |-> {}]

CaughtValues ==
    S3ServiceErrorsThrown \cup ServiceErrors \cup OtherErrors \cup RedactionErrors
        \cup {NotAnError}

Normalized(code, statusCode) == [code |-> code, statusCode |-> statusCode]

\* normalizeError: the branches in the order of the source.
normalizeError(error) ==
    IF error.instanceOfRedactionError
    THEN Normalized(error.code, error.statusCode)
    ELSE IF ~error.isError
    THEN Normalized("INTERNAL_ERROR", 500)
    ELSE IF error.name = "ValidationError"
    THEN Normalized("VALIDATION_ERROR", 400)
    ELSE IF error.name = "PayloadTooLargeError" \/ "exceeds maximum" \in error.message
    THEN Normalized("LIMIT_EXCEEDED", 413)
    ELSE IF "MIME" \in error.message \/ "Unsupported" \in error.message
    THEN Normalized("UNSUPPORTED_MEDIA", 415)
    ELSE IF error.name = "ImagePipelineError"
    THEN Normalized("PIPELINE_ERROR", 500)
    ELSE IF error.name = "S3ServiceError"
    THEN Normalized("S3_ERROR", IF error.statusCode # 0 THEN error.statusCode ELSE 500)
    ELSE IF error.name = "RedactionServiceError"
    THEN Normalized(error.code, IF error.statusCode # 0 THEN error.statusCode ELSE 500)
    ELSE Normalized("INTERNAL_ERROR", 500)

NormInit ==
    /\ BatchIdle
    /\ CoordIdle
    /\ ApiIdle
    /\ HookIdle
    /\ B64Idle
    /\ IntakeIdle
    /\ PipeIdle
    /\ ReqIdle
    /\ normError \in {{e} : e \in CaughtValues}
    /\ normResult = {}

\* The catch block calls normalizeError(error).
NormalizeCaught ==
    /\ normResult = {}
    /\ normResult' = {normalizeError(e) : e \in normError}
    /\ UNCHANGED normError
    /\ UNCHANGED outsideNorm

NormNext == NormalizeCaught

NormSpec == NormInit /\ [][NormNext]_vars

\* ----------------------------------------------------------- properties
Created == 1..Len(jobs)
ItemsOf(j) == jobs[j].items
AllTerminal(items) == \A k \in 1..Len(items) : Terminal(items[k].status)
SomeFailed(items) == \E k \in 1..Len(items) : items[k].status = "failed"
ItemSteps == {"getObject", "redactImage", "putObject"}
HookSteps == {"fetch", "backoff"}
\* The task of job j has run its item loop to the end.
LoopFinished(j) ==
    pc[j] \in HookSteps \/ (pc[j] = "returned" /\ AllTerminal(ItemsOf(j)))
UrlConfigured(j) == jobs[j].webhookUrl # {} \/ config # {}
Results(j) == [k \in 1..Len(posts[j]) |-> posts[j][k].result]

\* C1: in every reachable state of every job, progress.completed and
\* progress.failed are the numbers of completed and failed items, their sum
\* is at most progress.total, the job is 'completed' iff all items are
\* terminal and none failed, and 'failed' iff all are terminal and one failed.
C1_ProgressInvariant ==
    \A j \in Created :
        LET job == jobs[j] IN
        /\ job.progress.completed = CountStatus(job.items, "completed")
        /\ job.progress.failed = CountStatus(job.items, "failed")
        /\ job.progress.total = Len(job.items)
        /\ job.progress.completed + job.progress.failed <= job.progress.total
        /\ job.status = "completed" <=>
               (AllTerminal(job.items) /\ ~SomeFailed(job.items))
        /\ job.status = "failed" <=>
               (AllTerminal(job.items) /\ SomeFailed(job.items))

C1_Witness ==
    \E j \in Created :
        /\ jobs[j].status = "failed"
        /\ jobs[j].progress.completed = 1
        /\ jobs[j].progress.failed = 1

\* C2: at most one item of a job is 'processing' in any state, and an item
\* has left 'pending' only if the item before it is completed or failed.
C2_SequentialItems ==
    \A j \in Created :
        /\ CountStatus(ItemsOf(j), "processing") <= 1
        /\ \A k \in 2..Len(ItemsOf(j)) :
               ItemsOf(j)[k].status # "pending" => Terminal(ItemsOf(j)[k - 1].status)

C2_Witness ==
    \E j \in Created :
        /\ Len(ItemsOf(j)) >= 2
        /\ ItemsOf(j)[2].status = "processing"
        /\ ItemsOf(j)[1].status = "failed"

\* C3: whenever the task of a job leaves item i (after a failure or a
\* success at any step) item i is terminal, a failed item carries the error
\* message, and the next item is started (the task does not stop); a task
\* that has ended leaves every item terminal, progress.completed +
\* progress.failed = total and the job 'failed' iff some item failed.
C3_FailureDoesNotStopBatch ==
    /\ [][\A j \in Created :
            (pc[j] \in ItemSteps /\ (pc'[j] \notin ItemSteps \/ cur'[j] # cur[j]))
            => /\ Terminal(jobs'[j].items[cur[j]].status)
               /\ jobs'[j].items[cur[j]].status = "failed"
                     => jobs'[j].items[cur[j]].error \in {{e} : e \in ErrorMessages}
               /\ cur[j] < Len(ItemsOf(j))
                     => /\ pc'[j] = "getObject"
                        /\ cur'[j] = cur[j] + 1
                        /\ jobs'[j].items[cur[j] + 1].status = "processing"]_vars
    /\ [](\A j \in Created :
            (pc[j] \in {"returned", "rejected"} /\ jobs[j].status # "pending")
            => /\ AllTerminal(ItemsOf(j))
               /\ jobs[j].progress.completed + jobs[j].progress.failed
                     = jobs[j].progress.total
               /\ jobs[j].status = IF jobs[j].progress.failed > 0
                                   THEN "failed" ELSE "completed")

\* C4: the background task of a job never ends (by returning or by
\* rejecting) before the job is 'completed' or 'failed' with all of its
\* items terminal, whatever other submissions and evictions happen.
C4_RunsToCompletion ==
    \A j \in Created :
        pc[j] \in {"returned", "rejected"}
        => Terminal(jobs[j].status) /\ AllTerminal(ItemsOf(j))

\* C5: the step that produces the 202 response of a job leaves the job in
\* the store, 'pending', with every item 'pending' and its task only queued;
\* no item of a job is started before the response exists.
C5_RepliesBeforeProcessing ==
    /\ [][\A j \in JobIds :
            (replies[j] = {} /\ replies'[j] # {})
            => /\ InStore(store', j)
               /\ jobs'[j].status = "pending"
               /\ \A k \in 1..Len(jobs'[j].items) : jobs'[j].items[k].status = "pending"
               /\ jobs'[j].progress = [total |-> Len(jobs'[j].items),
                                       completed |-> 0, failed |-> 0]
               /\ pc'[j] = "scheduled"
               /\ replies'[j] = {[job_id |-> j, items_count |-> Len(jobs'[j].items),
                                  estimated_completion_ms |-> 500 * Len(jobs'[j].items)]}]_vars
    /\ [](\A j \in JobIds : pc[j] # "idle" => replies[j] # {})

C5_Witness ==
    \E j \in Created :
        /\ replies[j] # {}
        /\ pc[j] = "scheduled"
        /\ jobs[j].status = "pending"
        /\ \E i \in Created : i # j /\ pc[i] \in ItemSteps

\* C6: every webhook POST of a job carries a terminal job status, a pending
\* count of 0 and only terminal items, and goes to the job's own webhookUrl
\* when it has one, else to the global WEBHOOK_URL; a POST is made only if
\* one of the two is configured, and a task that has finished its item loop
\* has made a POST iff one of the two is configured.
C6_WebhookAfterAllTerminal ==
    \A j \in Created :
        /\ \A k \in 1..Len(posts[j]) :
              LET p == posts[j][k] IN
              /\ Terminal(p.payload.status)
              /\ p.payload.progress.pending = 0
              /\ \A i \in 1..Len(p.payload.items) : Terminal(p.payload.items[i].status)
              /\ p.payload = JobStatusOf(jobs[j])
              /\ p.webhook_url = IF jobs[j].webhookUrl # {}
                                 THEN jobs[j].webhookUrl ELSE config
              /\ p.webhook_url # {}
        /\ posts[j] # <<>> => UrlConfigured(j) /\ AllTerminal(ItemsOf(j))
        /\ LoopFinished(j) => (posts[j] # <<>> <=> UrlConfigured(j))

C6_Witness ==
    \E j \in Created :
        /\ jobs[j].webhookUrl # {}
        /\ config # {}
        /\ Len(posts[j]) >= 1
        /\ posts[j][1].payload.status = "failed"

\* C7: a job gets at most 3 webhook POSTs; every POST but the last one
\* failed, so none follows a successful one; after the third failure the task
\* has returned (it is not rejected and waits for no further retry); two
\* failures followed by a success are exactly 3 POSTs.
C7_AtMostThreeAttempts ==
    \A j \in JobIds :
        /\ Len(posts[j]) <= 3
        /\ \A k \in 1..Len(posts[j]) :
              /\ posts[j][k].webhook_attempts = k
              /\ k < Len(posts[j]) => posts[j][k].result = "failed"
        /\ pc[j] = "fetch" <=>
              (posts[j] # <<>> /\ posts[j][Len(posts[j])].result = "inflight")
        /\ pc[j] = "backoff" =>
              (Len(posts[j]) < 3 /\ posts[j][Len(posts[j])].result = "failed")
        /\ (Len(posts[j]) = 3 /\ posts[j][3].result # "inflight") => pc[j] = "returned"
        /\ (posts[j] # <<>> /\ posts[j][Len(posts[j])].result = "ok") => pc[j] = "returned"

C7_Witness ==
    \E j \in JobIds : Results(j) = <<"failed", "failed", "ok">> /\ pc[j] = "returned"

\* C8: while a job's webhook is being delivered, and after its task has
\* returned, no step changes the Job object (status, progress, items), and
\* the task never ends rejected from there, whatever the endpoint answers.
C8_WebhookLeavesJobAlone ==
    [][\A j \in Created :
          (pc[j] \in HookSteps \/ pc[j] = "returned")
          => /\ jobs'[j] = jobs[j]
             /\ pc'[j] \in HookSteps \cup {"returned"}]_vars

C8_Witness ==
    \E j \in JobIds :
        /\ Results(j) = <<"failed", "failed", "failed">>
        /\ pc[j] = "returned"
        /\ jobs[j].status = "completed"

\* C9: for every image size and every schema-valid coordinate the resolved
\* rectangle lies inside the image: 0 <= x < W, 0 <= y < H, width >= 1,
\* height >= 1, x + width <= W, y + height <= H.
C9_ResolvedInBounds ==
    \A r \in resolved :
        /\ 0 <= r.x /\ r.x < dims.width
        /\ 0 <= r.y /\ r.y < dims.height
        /\ r.width >= 1 /\ r.height >= 1
        /\ r.x + r.width <= dims.width
        /\ r.y + r.height <= dims.height

\* C10: a pixel rectangle whose origin is inside the image keeps x and y and
\* gets width = min(width, W - x), height = min(height, H - y); an in-bounds
\* rectangle is returned unchanged; resolving the result again changes
\* nothing; {350,250,100,100} on 400 x 300 gives {350,250,50,50}.
OriginInside == region.x < dims.width /\ region.y < dims.height

C10_ClampKeepsOrigin ==
    (isPixelCoordinates(region) /\ OriginInside) =>
        /\ \A r \in resolved :
              /\ r = [x |-> region.x, y |-> region.y,
                      width |-> Min(region.width, dims.width - region.x),
                      height |-> Min(region.height, dims.height - region.y)]
              /\ (region.x + region.width <= dims.width
                    /\ region.y + region.height <= dims.height) => r = region
              /\ (dims = ExampleDims /\ region = ExampleRegion)
                    => r = [x |-> 350, y |-> 250, width |-> 50, height |-> 50]
        /\ resolvedTwice # {} => resolvedTwice = resolved

C10_Witness ==
    /\ isPixelCoordinates(region) /\ OriginInside
    /\ region.x + region.width > dims.width
    /\ region.y + region.height <= dims.height
    /\ resolvedTwice # {}

\* C19: for every job (every job has at least one item) the status is
\* 'pending' exactly while all items are pending, 'processing' exactly while
\* some item has left 'pending' and some item is not terminal; startedAt is
\* unset exactly while the job is 'pending', is stamped with the clock by the
\* step that starts the first item, and never changes afterwards.
SomeStarted(items) == \E k \in 1..Len(items) : items[k].status # "pending"

C19_StatusMirrorsItems ==
    /\ [](\A j \in Created :
            /\ Len(ItemsOf(j)) >= 1
            /\ jobs[j].status = "pending" <=> ~SomeStarted(ItemsOf(j))
            /\ jobs[j].status = "processing" <=>
                   (SomeStarted(ItemsOf(j)) /\ ~AllTerminal(ItemsOf(j)))
            /\ jobs[j].startedAt = {} <=> jobs[j].status = "pending")
    /\ [][\A j \in Created :
            /\ jobs[j].startedAt # {} => jobs'[j].startedAt = jobs[j].startedAt
            /\ (~SomeStarted(ItemsOf(j)) /\ SomeStarted(jobs'[j].items))
                  => jobs'[j].startedAt = {now}]_vars

C19_Witness ==
    \E j \in Created :
        /\ jobs[j].status = "processing"
        /\ jobs[j].startedAt = {0}
        /\ now = LongLapse
        /\ ItemsOf(j)[1].status = "completed"
        /\ ItemsOf(j)[2].status = "processing"

\* C20: after createJob returns, the store holds at most MAX_JOBS jobs.
C20_StoreWithinCapacity == Len(store) <= MAX_JOBS

\* C18 as stated: under any sequence of startJobItem, completeJobItem and
\* failJobItem calls an item's status only moves forward along pending ->
\* processing -> {completed, failed}, and a completed or failed item never
\* changes status, result or error again.
Rank(s) == CASE s = "pending" -> 0 [] s = "processing" -> 1 [] OTHER -> 2

MonotonicStep ==
    \A j \in Created : \A i \in 1..Len(ItemsOf(j)) :
        /\ Rank(jobs'[j].items[i].status) >= Rank(ItemsOf(j)[i].status)
        /\ Terminal(ItemsOf(j)[i].status) => jobs'[j].items[i] = ItemsOf(j)[i]

C18_MonotonicUnderAnyCalls == [][MonotonicStep]_vars

\* C18, amended: the same holds as long as every call is one the item loop
\* makes (startJobItem on a pending item, completeJobItem or failJobItem on
\* a processing item).
C18_MonotonicInProtocol == [][inProtocol' => MonotonicStep]_vars

C18_Witness ==
    /\ inProtocol
    /\ \E j \in Created :
          /\ Len(ItemsOf(j)) = 2
          /\ ItemsOf(j)[1].status = "failed"
          /\ ItemsOf(j)[2].status = "completed"

\* C17: the timer armed after the k-th failed attempt is the k-th entry of
\* 1 s, 5 s, 10 s (1 s after the first failure, 5 s after the second),
\* whatever the kind of the failure, and attempt k + 1 is made no earlier
\* than that delay after the failure.
C17_BackoffDelays ==
    /\ [][(hookPc = "fetch" /\ hookPc' = "timer")
            => hookTimer' = {<<1, 5, 10>>[hookAttempt + 1]}]_vars
    /\ [](\A k \in 1..Len(hookWaits) :
            /\ hookWaits[k].waited >= <<1, 5, 10>>[k]
            /\ hookWaits[k].after \subseteq FailureKinds)
    /\ [](Len(hookWaits) <= 2)

C17_Witness ==
    /\ Len(hookWaits) = 2
    /\ hookWaits[1] = [after |-> {"non-2xx"}, waited |-> 1]
    /\ hookWaits[2] = [after |-> {"transport"}, waited |-> 5]

\* C16: a region of the base64 route given in pixel coordinates with
\* positive width and height (whole numbers of pixels, or some number above
\* 1) is never rejected, and the rectangle handed to the compositor has
\* 0 <= x <= W-1, 0 <= y <= H-1, 1 <= width <= W - x, 1 <= height <= H - y.
WholePixels(coords) ==
    \A f \in {"x", "y", "width", "height"} : coords[f] % Unit = 0

GivenInPixels(coords) == WholePixels(coords) \/ ~LooksNormalized(coords)

C16_PixelRegionNeverRejected ==
    GivenInPixels(b64Coords) =>
        /\ \A c \in b64Clamped : ~c.rejected
        /\ \A r \in b64Rect :
              /\ 0 <= r.x /\ r.x <= b64Dims.width - 1
              /\ 0 <= r.y /\ r.y <= b64Dims.height - 1
              /\ 1 <= r.width /\ r.width <= b64Dims.width - r.x
              /\ 1 <= r.height /\ r.height <= b64Dims.height - r.y

\* C15: a batch body with 0 or more than 10 items, or with an item that has
\* 0 or more than 20 regions or a malformed region, is answered with 400
\* VALIDATION_ERROR, and the step that answers it creates no job, queues no
\* task and starts no storage call: jobs, store, task positions, POSTs and
\* 202 replies are unchanged.
InvalidBody(body) ==
    \/ Len(body.items) = 0
    \/ Len(body.items) > 10
    \/ \E k \in 1..Len(body.items) :
          LET regions == body.items[k].regions IN
          \/ Len(regions) = 0
          \/ Len(regions) > 20
          \/ \E r \in 1..Len(regions) :
                regions[r] \in {ZeroWidthRegion, NegativeNormRegion}

C15_InvalidBatchChangesNothing ==
    [][\A r \in intake' :
          (intake' # intake /\ InvalidBody(r.body))
          => /\ r.status = 400
             /\ r.code = "VALIDATION_ERROR"
             /\ UNCHANGED <<jobs, store, pc, cur, att, posts, replies>>]_vars

C15_Witness ==
    /\ \E r \in intake :
          /\ r.status = 400
          /\ Len(r.body.items) = 2
          /\ r.body.items[1] = GoodItem
          /\ Len(r.body.items[2].regions) = 0
    /\ Len(jobs) = 1
    /\ pc[1] = "redactImage"

\* C11: after the first k regions of the list, the value of a pixel is
\* that of the last of those regions that covers it, computed from the
\* values the earlier regions left: an opaque fill gives its colour
\* whatever was there, a translucent fill lies over the earlier value, blur
\* and pixelate read the earlier values of their rectangle; a pixel no region
\* covers keeps the source value.  For overlapping opaque fills [red, blue]
\* the overlap is blue, for [blue, red] it is red.
Rect(k) == processCoordinates(pipeRegions[k].coordinates, pipeDims)

RECURSIVE ValueAfter(_, _)
ValueAfter(q, k) ==
    IF k = 0 THEN [src |-> q]
    ELSE IF ~InRect(q, Rect(k)) THEN ValueAfter(q, k - 1)
    ELSE LET operation == pipeRegions[k].operation
             before == [o \in Offsets(Rect(k)) |->
                          ValueAfter(<<Rect(k).x + o[1], Rect(k).y + o[2]>>, k - 1)]
             at == <<q[1] - Rect(k).x, q[2] - Rect(k).y>>
         IN  CASE operation.type = "fill" /\ operation.color.alpha = {} ->
                     [rgb |-> operation.color.rgb]
               [] operation.type = "fill" /\ operation.color.alpha # {} ->
                     [over |-> [rgb |-> operation.color.rgb, alpha |-> 128],
                      under |-> ValueAfter(q, k - 1)]
               [] operation.type = "blur" ->
                     [blur |-> 6, at |-> at, of |-> before]
               [] operation.type = "pixelate" ->
                     [pixelate |-> 12, at |-> at, of |-> before]

OpaqueFills(first, second) ==
    /\ Len(pipeRegions) = 2
    /\ pipeRegions[1].operation = [type |-> "fill", color |-> first]
    /\ pipeRegions[2].operation = [type |-> "fill", color |-> second]

Overlap == {q \in Pixels(pipeDims) : InRect(q, Rect(1)) /\ InRect(q, Rect(2))}

C11_LastWriteWins ==
    pipeStatus \in {"running", "encoded"} =>
        /\ \A q \in Pixels(pipeDims) : pipeBuffer[q] = ValueAfter(q, pipeDone)
        /\ (pipeDone = 2 /\ OpaqueFills(Red, Blue))
              => \A q \in Overlap : pipeBuffer[q] = [rgb |-> "0000FF"]
        /\ (pipeDone = 2 /\ OpaqueFills(Blue, Red))
              => \A q \in Overlap : pipeBuffer[q] = [rgb |-> "FF0000"]

C11_Witness ==
    /\ pipeStatus = "encoded"
    /\ OpaqueFills(Red, Blue)
    /\ Overlap # {}
    /\ \E q \in Pixels(pipeDims) : pipeBuffer[q] = [rgb |-> "FF0000"]
    /\ \A q \in Overlap : pipeBuffer[q] = [rgb |-> "0000FF"]

\* The destination object as it was when the request arrived.
ExistedBefore == reqDest \in {"earlier", "overwritten"}

CallsMade == {reqCalls[k] : k \in 1..Len(reqCalls)}

\* The existence check was made and did not throw, and the request is over.
ExistenceKnown ==
    /\ reqRoute = "s3"
    /\ reqPc = "done"
    /\ "objectExists" \in CallsMade
    /\ \A r \in reqReply : r.failedAt # "objectExists"

SkippedReply ==
    /\ reqReply = OkReply(FALSE, "0")
    /\ CallsMade = {"objectExists"}
    /\ reqDest = "earlier"

\* C13 as stated: an S3 request with an explicit idempotency_key whose
\* destination object exists is answered ok = true, processing_time_ms = 0,
\* having started no getObject, no redactImage and no putObject, and the
\* destination object is as it was.
C13_ExplicitKeySkips ==
    (ExistenceKnown /\ reqKey # {} /\ ExistedBefore) => SkippedReply

\* C13, amended: the same for an idempotency_key that is not the empty
\* string.
C13_NonEmptyKeySkips ==
    (ExistenceKnown /\ Truthy(reqKey) /\ ExistedBefore) => SkippedReply

C13_Witness ==
    /\ reqRoute = "s3"
    /\ reqKey = {"key-1"}
    /\ SkippedReply

\* Where a run can fail once its processing has begun.
PipelineFailures == RedactStages \cup {"getObject"}

\* C14: putObject is started, and image bytes are sent, only after every
\* region was applied and the encoding succeeded; a run that failed in the
\* fetch or inside redactImage (validation, metadata, a region, encoding)
\* started no putObject, left the destination as it was and sent no image.
C14_NoOutputOnFailure ==
    /\ [][(Len(reqCalls') > Len(reqCalls) /\ reqCalls'[Len(reqCalls')] = "putObject")
            => (reqPc = "encode" /\ reqLeft = 0)]_vars
    /\ [][\A r \in reqReply' :
            (reqReply = {} /\ r.image) => (reqPc = "encode" /\ reqLeft = 0)]_vars
    /\ [](\A r \in reqReply :
            r.failedAt \in PipelineFailures
            => /\ "putObject" \notin CallsMade
               /\ reqDest \notin {"written", "overwritten"}
               /\ ~r.image)
    /\ [](reqDest \in {"written", "overwritten"} => "putObject" \in CallsMade)

C14_Witness ==
    /\ reqRoute = "batch"
    /\ reqDest = "earlier"
    /\ reqLeft = 1
    /\ \E r \in reqReply : r.failedAt = "applyOperation"

\* The ids a store holds.
Held(st) == {st[k] : k \in 1..Len(st)}

\* The held jobs older than the TTL at the time of a createJob.
ExpiredNow == {j \in Held(store) : now - jobs[j].createdAt > JOB_TTL_MS}

CapacityEvicted == (Held(store) \ Held(store')) \ ExpiredNow

\* C21: in a createJob, every expired job is removed; of the others, none
\* is removed unless they are more than MAX_JOBS, then as many as the
\* excess, and no survivor is older than a job removed for capacity; the
\* job being created is in the store afterwards.
C21_EvictionStep ==
    LET remaining == Held(store) \ ExpiredNow
        excess == Max(0, Cardinality(remaining) - MAX_JOBS)
    IN  /\ ExpiredNow \cap Held(store') = {}
        /\ Cardinality(CapacityEvicted) = excess
        /\ \A e \in CapacityEvicted, s \in Held(store) \cap Held(store') :
               jobs[s].createdAt >= jobs[e].createdAt
        /\ Len(jobs') \in Held(store')

C21_EvictsOldest == [][Len(jobs') > Len(jobs) => C21_EvictionStep]_vars

\* A job not older than the TTL is gone from the store, and so is an
\* older one.
C21_Witness ==
    /\ \E j \in 1..Len(jobs) : j \notin Held(store) /\ now - jobs[j].createdAt <= JOB_TTL_MS
    /\ \E j \in 1..Len(jobs) : j \notin Held(store) /\ now - jobs[j].createdAt > JOB_TTL_MS

\* The number of items of a JobStatus document whose status is in a set.
Reported(doc, statuses) ==
    Cardinality({k \in 1..Len(doc.items) : doc.items[k].status \in statuses})

\* A JobStatus document whose counters and status say what its items say.
ConsistentSnapshot(doc) ==
    /\ doc.progress.total = Len(doc.items)
    /\ doc.progress.completed = Reported(doc, {"completed"})
    /\ doc.progress.failed = Reported(doc, {"failed"})
    /\ doc.status = "pending" <=> Reported(doc, {"pending"}) = Len(doc.items)
    /\ doc.status = "completed" <=> Reported(doc, {"completed"}) = Len(doc.items)
    /\ doc.status = "failed" <=>
          /\ Reported(doc, {"completed", "failed"}) = Len(doc.items)
          /\ Reported(doc, {"failed"}) > 0

\* C22: whenever a status query is answered, between any two steps of the
\* orchestrators of any jobs, the document returned for a held job is a
\* consistent snapshot.
C22_PollSeesConsistentSnapshot ==
    \A j \in Created :
        LET answer == getStatus(jobs, store, j)
        IN  answer.statusCode = 200 => ConsistentSnapshot(answer.body)

\* Two held jobs are polled in mid-flight, each with an item in work.
C22_Witness ==
    /\ \A j \in 1..2 :
          /\ j \in Created
          /\ getStatus(jobs, store, j).statusCode = 200
          /\ Reported(getStatus(jobs, store, j).body, {"processing"}) = 1
    /\ Reported(getStatus(jobs, store, 1).body, {"completed", "failed"}) = 1

\* A unit-interval region whose width or height is not positive once the
\* region is cut to the unit square.
DegenerateUnitRegion(coords) ==
    /\ isNormalizedCoordinates(coords)
    /\ \/ Min(coords.w_norm, UnitDenominator - coords.x_norm) <= 0
       \/ Min(coords.h_norm, UnitDenominator - coords.y_norm) <= 0

\* C23: resolving a degenerate unit-interval region (x = 1, or a zero w or
\* h) yields an InvalidRegion failure and no rectangle.
C23_DegenerateRegionFails ==
    (resolved # {} /\ DegenerateUnitRegion(region))
    => \A r \in resolved : ~isPixelCoordinates(r)

\* The run went through without a failure.
WentThrough == \E r \in reqReply : r.ok

\* C24: an S3 request without idempotency_key is never skipped, whether or
\* not the destination exists: the input is downloaded, and a run that
\* went through has redacted it and written the destination, with the
\* derived key as the object's x-idempotency-key and a measured time.
C24_NoKeyNeverSkips ==
    (ExistenceKnown /\ reqKey = {})
    => /\ "getObject" \in CallsMade
       /\ WentThrough =>
             /\ reqCalls = <<"objectExists", "getObject", "redactImage", "putObject">>
             /\ reqDest \in {"written", "overwritten"}
             /\ reqMetadata = {generateRequestHash}
             /\ reqReply = OkReply(FALSE, "measured")

C24_Witness ==
    /\ ExistenceKnown
    /\ reqKey = {}
    /\ reqDest = "overwritten"
    /\ WentThrough

\* C25: a batch item with an idempotency_key whose destination object
\* exists is completed without getObject, redactImage or putObject, and the
\* destination object is as it was.
C25_BatchItemSkips ==
    (reqRoute = "batch" /\ Truthy(reqKey) /\ ExistedBefore /\ reqPc = "done")
    => /\ WentThrough
       /\ CallsMade \cap {"getObject", "redactImage", "putObject"} = {}
       /\ reqDest = "earlier"

TooLarge == reqImage.width * reqImage.height > MAX_PIXELS

\* C26: an image of more than MAX_PIXELS pixels never reaches a region
\* operation, the encoding or a destination write, and once redactImage was
\* called for it the run ends in a failure of validateInput; an image of at
\* most MAX_PIXELS pixels is never refused as too large.
C26_TooLargeRejectedFirst ==
    /\ TooLarge =>
          /\ reqPc \notin {"metadata", "applyOperation", "encode", "putObject"}
          /\ "putObject" \notin CallsMade
          /\ reqDest \notin {"written", "overwritten"}
          /\ (reqPc = "done" /\ "redactImage" \in CallsMade)
                => \E r \in reqReply : ~r.ok /\ r.failedAt = "validateInput"
    /\ ~TooLarge => \A r \in reqReply : r.code # "IMAGE_TOO_LARGE"

\* A batch item whose image has six pixels is refused as too large.
C26_Witness ==
    /\ reqRoute = "batch"
    /\ reqImage.width * reqImage.height = MAX_PIXELS + 2
    /\ \E r \in reqReply : r.code = "IMAGE_TOO_LARGE"

\* C27: normalizeError turns every S3ServiceError into code S3_ERROR with
\* the status of the error, whatever its message contains.
C27_StorageErrorKeepsStatus ==
    \A e \in normError, r \in normResult :
        e.name = "S3ServiceError"
        => r.code = "S3_ERROR" /\ r.statusCode = e.statusCode

\* A step taken on behalf of job a: its task moved.
ActsFor(a) == pc'[a] # pc[a] \/ cur'[a] # cur[a] \/ att'[a] # att[a]

\* The step leaves job b as it was.
LeftAlone(b) ==
    /\ jobs'[b] = jobs[b]
    /\ pc'[b] = pc[b] /\ cur'[b] = cur[b] /\ att'[b] = att[b]
    /\ posts'[b] = posts[b]

StepIsolation ==
    \A a \in JobIds, b \in Created : (a # b /\ ActsFor(a)) => LeftAlone(b)

\* What the task of a job leaves behind when no other job exists: every
\* item terminal, the job terminal, the task returned, and the webhook
\* posted if a URL is configured.
EndsAsIfAlone(j) ==
    /\ pc[j] = "returned"
    /\ AllTerminal(ItemsOf(j))
    /\ Terminal(jobs[j].status)
    /\ WebhookUrlFor(jobs[j], config) # {} => posts[j] # <<>>

\* C28: a step of one job's task leaves every other job as it was, and a
\* task that is over has left its job as it would have alone.
C28_JobsIsolated ==
    /\ [][StepIsolation]_vars
    /\ [](\A j \in Created : pc[j] \in {"returned", "rejected"} => EndsAsIfAlone(j))

\* C29: the clamp loop (on the submitted numbers) and
\* convertToInternalRegion (on the clamped numbers) read a region the same
\* way, as normalized or as pixels.
C29_InferencesAgree ==
    \A c \in b64Clamped :
        (~c.rejected /\ b64Rect # {})
        => (LooksNormalized(b64Coords) <=> LooksNormalized(c.coords))

\* The pending count of a JobStatus document is the number of its items
\* that are not terminal, and is 0 exactly when its status is terminal.
PendingCountsOpenItems(doc) ==
    /\ doc.progress.pending
          = doc.progress.total - doc.progress.completed - doc.progress.failed
    /\ doc.progress.pending = Reported(doc, {"pending", "processing"})
    /\ doc.progress.pending = 0 <=> Terminal(doc.status)

\* C30: the pending count of every status response and of every webhook
\* payload counts the items that are 'pending' or 'processing', and is 0
\* exactly when the reported job status is terminal.
C30_PendingCountsOpenItems ==
    \A j \in Created :
        /\ getStatus(jobs, store, j).statusCode = 200
              => PendingCountsOpenItems(getStatus(jobs, store, j).body)
        /\ \A k \in 1..Len(posts[j]) : PendingCountsOpenItems(posts[j][k].payload)

\* One job is polled with an item in work and an item waiting while the
\* webhook of another has been posted.
C30_Witness ==
    \E j, i \in Created :
        /\ getStatus(jobs, store, j).statusCode = 200
        /\ getStatus(jobs, store, j).body.progress.pending = 2
        /\ Reported(getStatus(jobs, store, j).body, {"processing"}) = 1
        /\ posts[i] # <<>>

====
